---- MODULE Spec2Model ----
(***************************************************************************)
(* The markdown-flavoured text-to-markup engine of src/index.js:           *)
(* escapeHtml, escapeHtmlAttribute, renderInlineMarkdown, markdownToHtml   *)
(* (the Semantic profile) and markdownToDivHtml (the DivWrapped profile).  *)
(*                                                                         *)
(* A JavaScript string is modelled as a sequence of one-character strings. *)
(* The characters that cannot be written inside a TLA+ string literal are  *)
(* named instead: the backtick, the en dash and the em dash by their       *)
(* names, the white space characters from U+2000 on by their code points.  *)
(***************************************************************************)
EXTENDS Integers, Sequences, FiniteSets, TLC

Backtick == "BACKTICK"
EnDash == "EN-DASH"
EmDash == "EM-DASH"

\* U+000B, U+000C, U+00A0, U+1680 and U+FEFF, written as they are
VerticalTab == ""
FormFeed == "\f"
NoBreakSpace == " "
OghamSpace == " "
ByteOrderMark == "﻿"
LineSeparator == "U+2028"
ParagraphSeparator == "U+2029"
\* the space separators U+2000 to U+200A, U+202F, U+205F and U+3000
SpaceSeparators ==
  { "U+2000", "U+2001", "U+2002", "U+2003", "U+2004", "U+2005", "U+2006",
    "U+2007", "U+2008", "U+2009", "U+200A", "U+202F", "U+205F", "U+3000" }

\* the characters the regular-expression dot does not match
LineTerminators == {"\n", "\r", LineSeparator, ParagraphSeparator}
\* the characters matched by \s in a regular expression and removed by
\* trim(): the white space and the line terminators of ECMAScript
WhiteSpace ==
  {" ", "\t", VerticalTab, FormFeed, NoBreakSpace, OghamSpace, ByteOrderMark}
    \cup SpaceSeparators \cup LineTerminators
DigitChars == <<"0", "1", "2", "3", "4", "5", "6", "7", "8", "9">>
DashLike == {"-", EnDash, EmDash}

\* the value of an absent input and of the explicit no-value result; it is
\* no string, its only element being no character
Undefined == <<"UNDEFINED">>

\* ---------------------------------------------------------------- literals
EntAmp == <<"&", "a", "m", "p", ";">>
EntLt == <<"&", "l", "t", ";">>
EntGt == <<"&", "g", "t", ";">>
EntQuot == <<"&", "q", "u", "o", "t", ";">>
EntApos == <<"&", "#", "3", "9", ";">>
PlaceholderPrefix == <<"@", "@", "M", "D">>
KeyPrefix == <<"@", "@", "M", "D", "P", "H">>
TokenSuffix == <<"@", "@">>
CodeOpen == <<"<", "c", "o", "d", "e", ">">>
CodeClose == <<"<", "/", "c", "o", "d", "e", ">">>
AnchorOpen == <<"<", "a", " ", "h", "r", "e", "f", "=", "\"">>
AnchorAttrs == <<"\"", " ", "t", "a", "r", "g", "e", "t", "=", "\"", "_", "b", "l", "a", "n", "k", "\"", " ", "r", "e", "l", "=", "\"", "n", "o", "o", "p", "e", "n", "e", "r", " ", "n", "o", "r", "e", "f", "e", "r", "r", "e", "r", "\"", ">">>
AnchorClose == <<"<", "/", "a", ">">>
TagStrong == <<"s", "t", "r", "o", "n", "g">>
TagEm == <<"e", "m">>
DivParagraphOpen == <<"<", "d", "i", "v", " ", "c", "l", "a", "s", "s", "=", "\"", "p", "a", "r", "a", "g", "r", "a", "p", "h", "\"", ">">>
DivClose == <<"<", "/", "d", "i", "v", ">">>
DivClassOpen == <<"<", "d", "i", "v", " ", "c", "l", "a", "s", "s", "=", "\"">>
ClassListOrdered == <<"l", "i", "s", "t", " ", "l", "i", "s", "t", "-", "o", "r", "d", "e", "r", "e", "d">>
ClassListUnordered == <<"l", "i", "s", "t", " ", "l", "i", "s", "t", "-", "u", "n", "o", "r", "d", "e", "r", "e", "d">>
StartAttrOpen == <<" ", "s", "t", "a", "r", "t", "=", "\"">>
ValueAttrOpen == <<" ", "v", "a", "l", "u", "e", "=", "\"">>
LiOpen == <<"<", "l", "i">>
LiClose == <<"<", "/", "l", "i", ">">>
DivHeadingOpen == <<"<", "d", "i", "v", " ", "c", "l", "a", "s", "s", "=", "\"", "h", "e", "a", "d", "i", "n", "g", " ", "h", "e", "a", "d", "i", "n", "g", "-">>
DivDivider == <<"<", "d", "i", "v", " ", "c", "l", "a", "s", "s", "=", "\"", "d", "i", "v", "i", "d", "e", "r", "\"", ">", "<", "/", "d", "i", "v", ">">>
DivBlockquoteOpen == <<"<", "d", "i", "v", " ", "c", "l", "a", "s", "s", "=", "\"", "b", "l", "o", "c", "k", "q", "u", "o", "t", "e", "\"", ">">>
POpen == <<"<", "p", ">">>
PBreak == <<"<", "b", "r", " ", "/", ">", "\n">>
PClose == <<"<", "/", "p", ">">>
StyleOrdered == <<" ", "s", "t", "y", "l", "e", "=", "\"", "p", "a", "d", "d", "i", "n", "g", "-", "l", "e", "f", "t", ":", " ", "2", "5", "p", "x", ";", "\"">>
StyleUnordered == <<" ", "s", "t", "y", "l", "e", "=", "\"", "l", "i", "s", "t", "-", "s", "t", "y", "l", "e", "-", "t", "y", "p", "e", ":", " ", "d", "i", "s", "c", ";", " ", "p", "a", "d", "d", "i", "n", "g", "-", "l", "e", "f", "t", ":", " ", "2", "5", "p", "x", ";", "\"">>
NestedOpen == <<"<", "u", "l", " ", "s", "t", "y", "l", "e", "=", "\"", "l", "i", "s", "t", "-", "s", "t", "y", "l", "e", "-", "t", "y", "p", "e", ":", " ", "c", "i", "r", "c", "l", "e", ";", " ", "p", "a", "d", "d", "i", "n", "g", "-", "l", "e", "f", "t", ":", " ", "2", "0", "p", "x", ";", "\"", ">", "<", "l", "i", ">">>
NestedClose == <<"<", "/", "l", "i", ">", "<", "/", "u", "l", ">">>
HOpen == <<"<", "h">>
HCloseOpen == <<"<", "/", "h">>
Hr == <<"<", "h", "r", " ", "/", ">">>
BlockquoteOpen == <<"<", "b", "l", "o", "c", "k", "q", "u", "o", "t", "e", ">">>
BlockquoteClose == <<"<", "/", "b", "l", "o", "c", "k", "q", "u", "o", "t", "e", ">">>
TagOl == <<"o", "l">>
TagUl == <<"u", "l">>
SchemeHttp == <<"h", "t", "t", "p">>
SchemeSep == <<":", "/", "/">>

\* ------------------------------------------------------- string primitives
Min(S) == CHOOSE x \in S : \A y \in S : x <= y
Max(S) == CHOOSE x \in S : \A y \in S : x >= y

RECURSIVE Flatten(_)
Flatten(parts) ==
  IF parts = <<>> THEN <<>> ELSE Head(parts) \o Flatten(Tail(parts))

RECURSIVE Join(_, _)
Join(parts, sep) ==
  IF parts = <<>> THEN <<>>
  ELSE IF Len(parts) = 1 THEN parts[1]
  ELSE parts[1] \o sep \o Join(Tail(parts), sep)

\* String.prototype.trim
trim(s) ==
  LET keep == {i \in 1..Len(s) : s[i] \notin WhiteSpace}
  IN IF keep = {} THEN <<>> ELSE SubSeq(s, Min(keep), Max(keep))

\* s has the literal lit at position i
StartsWithAt(s, i, lit) ==
  /\ i >= 1
  /\ i + Len(lit) - 1 <= Len(s)
  /\ SubSeq(s, i, i + Len(lit) - 1) = lit

\* the least index j >= i with s[j] in cs, or 0
IndexOfFrom(s, cs, i) ==
  LET hits == {j \in i..Len(s) : s[j] \in cs}
  IN IF hits = {} THEN 0 ELSE Min(hits)

\* the least index j >= i with s[j] not in cs, or Len(s) + 1
SkipWhile(s, cs, i) ==
  LET stops == {j \in i..Len(s) : s[j] \notin cs}
  IN IF stops = {} THEN Len(s) + 1 ELSE Min(stops)

\* value.replace(/c/g, rep) for a one-character pattern c and a replacement
\* that holds no dollar sign, from position i of s on
RECURSIVE ReplaceCharFrom(_, _, _, _)
ReplaceCharFrom(s, c, rep, i) ==
  LET j == IndexOfFrom(s, {c}, i)
  IN IF j = 0 THEN SubSeq(s, i, Len(s))
     ELSE SubSeq(s, i, j - 1) \o rep \o ReplaceCharFrom(s, c, rep, j + 1)

ReplaceChar(s, c, rep) == ReplaceCharFrom(s, c, rep, 1)

\* the decimal digits of a natural number, as template literals print it
RECURSIVE NatToStr(_)
NatToStr(n) ==
  IF n < 10 THEN <<DigitChars[n + 1]>>
  ELSE NatToStr(n \div 10) \o <<DigitChars[(n % 10) + 1]>>

DigitValue(c) == CHOOSE d \in 0..9 : DigitChars[d + 1] = c

\* ------------------------------------------------------ JavaScript numbers
\* Number(match[1]) is an IEEE 754 double. An ordinal is held as the
\* characters String() gives for that double, a form that is unique per
\* value, so that equal numbers are equal sequences and a template literal
\* prints the sequence as it is. The arithmetic is done on sequences of
\* decimal digits, most significant first and without leading zeros, and so
\* does not depend on the width of an integer.
Infinity == <<"I", "n", "f", "i", "n", "i", "t", "y">>

DigitValues(ds) == SubSeq([i \in 1..Len(ds) |-> DigitValue(ds[i])], 1, Len(ds))
DigitString(d) == SubSeq([i \in 1..Len(d) |-> DigitChars[d[i] + 1]], 1, Len(d))

\* the digits of a small natural number
NatDigits(n) == DigitValues(NatToStr(n))

\* the digits without leading zeros; zero is the single digit 0
StripFrom(d, i) == IF i > Len(d) THEN <<0>> ELSE SubSeq(d, i, Len(d))
StripZeros(d) == StripFrom(d, SkipWhile(d, {0}, 1))

Zeros(n) == SubSeq([i \in 1..n |-> 0], 1, n)

\* a < b
LessAt(a, b, i) == i <= Len(a) /\ a[i] < b[i]
Less(a, b) ==
  IF Len(a) # Len(b) THEN Len(a) < Len(b)
  ELSE LessAt(a, b, Min({i \in 1..Len(a) : a[i] # b[i]} \cup {Len(a) + 1}))

\* the positions lo..hi of s, each an integer that stands for that many units
\* of its weight, with the carry c added at position hi and each position
\* brought into 0..9: the carry that leaves position lo, then the digits
RECURSIVE CarriedFrom(_, _, _, _)
RECURSIVE CarriedOnto(_, _, _, _)
CarriedFrom(s, lo, hi, c) ==
  IF lo = hi THEN <<(s[lo] + c) \div 10, (s[lo] + c) % 10>>
  ELSE CarriedOnto(s, lo, (lo + hi) \div 2,
                   CarriedFrom(s, (lo + hi) \div 2 + 1, hi, c))

\* the positions to the right are worked out before those to the left of them
CarriedOnto(s, lo, mid, right) ==
  IF right[1] = 0 THEN CarriedFrom(s, lo, mid, 0) \o Tail(right)
  ELSE CarriedFrom(s, lo, mid, right[1]) \o Tail(right)

CarriedNumber(r) == StripZeros(NatDigits(r[1]) \o Tail(r))

\* the number with s[i] units at the i-th position, for a number that is not
\* negative
Carried(s) ==
  IF Len(s) = 0 THEN <<0>> ELSE CarriedNumber(CarriedFrom(s, 1, Len(s), 0))

\* a + b
AddPadded(a, b, n) ==
  Carried(SubSeq([i \in 1..n |->
                    (IF i > n - Len(a) THEN a[i - (n - Len(a))] ELSE 0)
                    + (IF i > n - Len(b) THEN b[i - (n - Len(b))] ELSE 0)],
                 1, n))

Add(a, b) == AddPadded(a, b, Max({Len(a), Len(b)}))

\* a - b for a >= b
Subtract(a, b) ==
  Carried(SubSeq([i \in 1..Len(a) |->
                    a[i] - (IF i > Len(a) - Len(b)
                            THEN b[i - (Len(a) - Len(b))] ELSE 0)],
                 1, Len(a)))

Twice(d) == Add(d, d)

\* the sum of the products a[i] * b[v + 1 - i] for i in lo..hi
RECURSIVE ProductSum(_, _, _, _, _)
ProductSum(a, b, v, lo, hi) ==
  IF lo > hi THEN 0
  ELSE IF lo = hi THEN a[lo] * b[v + 1 - lo]
  ELSE ProductSum(a, b, v, lo, (lo + hi) \div 2)
       + ProductSum(a, b, v, (lo + hi) \div 2 + 1, hi)

\* the column sums of the long multiplication, the highest weight first: at
\* most 81 times the length of the shorter factor
Columns(a, b) ==
  SubSeq([v \in 1..(Len(a) + Len(b) - 1) |->
            ProductSum(a, b, v, Max({1, v + 1 - Len(b)}), Min({Len(a), v}))],
         1, Len(a) + Len(b) - 1)

\* a * b
Times(a, b) ==
  IF a = <<0>> \/ b = <<0>> THEN <<0>> ELSE Carried(Columns(a, b))

Square(a) == Times(a, a)

\* x to the power e
RECURSIVE Power(_, _)
Power(x, e) ==
  IF e = 0 THEN <<1>>
  ELSE IF e % 2 = 0 THEN Square(Power(x, e \div 2))
  ELSE Times(x, Power(x, e - 1))

TwoTo52 == <<4, 5, 0, 3, 5, 9, 9, 6, 2, 7, 3, 7, 0, 4, 9, 6>>
TwoTo53 == <<9, 0, 0, 7, 1, 9, 9, 2, 5, 4, 7, 4, 0, 9, 9, 2>>

\* a double from 2^53 on is q * 2^e with 2^52 <= q < 2^53 and e >= 1
Double(q, e) == [q |-> q, e |-> e]

\* the e with 2^(52 + e) <= n < 2^(53 + e), for n >= 2^53; low is a lower
\* bound of it got from the number of digits and pw is 2^(53 + low)
RECURSIVE ExcessFrom(_, _, _)
ExcessFrom(n, low, pw) ==
  IF Less(n, pw) THEN low ELSE ExcessFrom(n, low + 1, Twice(pw))

LowExcess(n) == Max({1, ((Len(n) - 1) * 33219) \div 10000 - 53})

Excess(n) == ExcessFrom(n, LowExcess(n), Power(<<2>>, 53 + LowExcess(n)))

\* q plus one when the digits cut off, a fraction of e digits, are more than
\* one half, or one half and q is odd: round to nearest, ties to even
RoundedUp(q, cut) ==
  IF \/ cut[1] > 5
     \/ cut[1] = 5 /\ \E j \in 2..Len(cut) : cut[j] # 0
     \/ cut[1] = 5 /\ q[Len(q)] % 2 = 1
  THEN Add(q, <<1>>) ELSE q

Canonical(q, e) == IF q = TwoTo53 THEN Double(TwoTo52, e + 1) ELSE Double(q, e)

\* n / 2^e is n * 5^e / 10^e: m is n * 5^e, its last e digits the fraction
RoundedQuotient(m, e) ==
  Canonical(RoundedUp(SubSeq(m, 1, Len(m) - e), SubSeq(m, Len(m) - e + 1, Len(m))), e)

\* the double nearest to n, for n >= 2^53
RoundedAt(n, e) == RoundedQuotient(Times(n, Power(<<5>>, e)), e)
Rounded(n) == RoundedAt(n, Excess(n))

\* d with the digits after the first k replaced by zeros, and the next
\* number of k significant digits above it
Lo(d, k) == SubSeq(d, 1, k) \o Zeros(Len(d) - k)
Hi(d, k) == Add(SubSeq(d, 1, k), <<1>>) \o Zeros(Len(d) - k)

\* x lies between the bounds, and may lie on a bound when q is even
Within(x, below, above, even) ==
  /\ IF even THEN ~Less(x, below) ELSE Less(below, x)
  /\ IF even THEN ~Less(above, x) ELSE Less(x, above)

\* the number c denotes the double: four times c lies between the bounds,
\* which are four times the points half way to the doubles next to it
Denotes(c, below, above, even) == Within(Twice(Twice(c)), below, above, even)

\* of Lo(d, k) and Hi(d, k), the one nearer to d, and the one with the even
\* last digit when d is half way between them
Nearer(d, k) ==
  IF k = Len(d) THEN d
  ELSE IF \/ d[k + 1] > 5
          \/ d[k + 1] = 5 /\ \E j \in (k + 2)..Len(d) : d[j] # 0
          \/ d[k + 1] = 5 /\ d[k] % 2 = 1 /\ \A j \in (k + 2)..Len(d) : d[j] = 0
  THEN Hi(d, k) ELSE Lo(d, k)

Chosen(d, k, below, above, even) ==
  IF ~Denotes(Lo(d, k), below, above, even) THEN Hi(d, k)
  ELSE IF ~Denotes(Hi(d, k), below, above, even) THEN Lo(d, k)
  ELSE Nearer(d, k)

\* the decimal digits Number.prototype.toString chooses for the double with
\* the exact value d: the fewest significant digits, zeros after them, that
\* still denote this double, and among two such the nearer one
Shortest(d, below, above, even) ==
  Chosen(d, Min({k \in 1..Min({17, Len(d)}) :
                   \/ Denotes(Lo(d, k), below, above, even)
                   \/ Denotes(Hi(d, k), below, above, even)}),
         below, above, even)

\* d is q * 2^e and pw is 2^e: the double below d is half as far away as the
\* one above it when q is 2^52
ShortestWith(d, q, pw) ==
  Shortest(d,
           Subtract(Twice(Twice(d)), IF q = TwoTo52 THEN pw ELSE Twice(pw)),
           Add(Twice(Twice(d)), Twice(pw)),
           q[Len(q)] % 2 = 0)

\* Number.prototype.toString for the digits chosen: plain digits below 1e21,
\* the form d.ddde+n from there on
Exponential(c, last) ==
  <<DigitChars[c[1] + 1]>>
  \o (IF last > 1 THEN <<".">> \o DigitString(SubSeq(c, 2, last)) ELSE <<>>)
  \o <<"e", "+">> \o NatToStr(Len(c) - 1)

NumberString(c) ==
  IF Len(c) <= 21 THEN DigitString(c)
  ELSE Exponential(c, Max({i \in 1..Len(c) : c[i] # 0}))

\* the exact value of the double q * 2^e, pw being 2^e
ValueWith(q, pw) == Times(q, pw)
ValueOf(r) == ValueWith(r.q, Power(<<2>>, r.e))

\* String() of the double q * 2^e; from 2^1024 on it is Infinity
PrintedWith(q, pw) == NumberString(ShortestWith(ValueWith(q, pw), q, pw))
Printed(r) ==
  IF r.e + 53 > 1024 THEN Infinity ELSE PrintedWith(r.q, Power(<<2>>, r.e))

\* the double nearest to the integer with the decimal digits n; an integer
\* below 2^53 is a double, one of 310 digits or more is beyond every double
NumberOf(n) ==
  IF Less(n, TwoTo53) THEN DigitString(n)
  ELSE IF Len(n) > 309 THEN Infinity
  ELSE Printed(Rounded(n))

\* Number(digits) for a non-empty run of decimal digits
StrToNat(ds) == NumberOf(StripZeros(DigitValues(ds)))

\* the exponent of a number printed as d.ddde+n
RECURSIVE ExponentOf(_)
ExponentOf(ds) ==
  IF ds = <<>> THEN 0
  ELSE 10 * ExponentOf(SubSeq(ds, 1, Len(ds) - 1)) + DigitValue(ds[Len(ds)])

\* the digits a finite number x is printed with, as an integer
Written(x, e) ==
  IF e = 0 THEN DigitValues(x)
  ELSE DigitValues(SelectSeq(SubSeq(x, 1, e - 1), LAMBDA c : c # "."))
       \o Zeros(ExponentOf(SubSeq(x, e + 2, Len(x))) + 1
                  - Len(SelectSeq(SubSeq(x, 1, e - 1), LAMBDA c : c # ".")))

\* the exact value, in decimal digits, of the finite number x
ExactOf(w) == IF Less(w, TwoTo53) THEN w ELSE ValueOf(Rounded(w))
ExactDigits(x) == ExactOf(Written(x, IndexOfFrom(x, {"e"}, 1)))

\* x + n, the sum of two doubles, for a small natural number n
NumberPlus(x, n) ==
  IF x = Infinity THEN Infinity ELSE NumberOf(Add(ExactDigits(x), NatDigits(n)))

\* ------------------------------------------------------------------ Escaper
\* a faulty escaper that leaves the character < as it is: C1 must reject it
escapeHtmlKeepingLt(value) ==
  ReplaceChar(ReplaceChar(ReplaceChar(ReplaceChar(
    value, "&", EntAmp), ">", EntGt), "\"", EntQuot), "'", EntApos)

escapeHtml(value) ==
  ReplaceChar(ReplaceChar(ReplaceChar(ReplaceChar(ReplaceChar(
    value, "&", EntAmp), "<", EntLt), ">", EntGt), "\"", EntQuot), "'", EntApos)

escapeHtmlAttribute(value) ==
  ReplaceChar(ReplaceChar(ReplaceChar(ReplaceChar(ReplaceChar(
    value, "&", EntAmp), "<", EntLt), ">", EntGt), "\"", EntQuot), "'", EntApos)

\* --------------------------------------------- String.prototype.replace
\* GetSubstitution for a pattern without capture groups: $$ is a dollar sign,
\* $& the matched text, $` the text before the match, $' the text after it;
\* any other dollar sign stands for itself. k is the position reached in the
\* replacement text.
RECURSIVE GetSubstitution(_, _, _, _, _)
GetSubstitution(matched, str, position, replacement, k) ==
  LET patterns == {j \in k..(Len(replacement) - 1) :
                     /\ replacement[j] = "$"
                     /\ replacement[j + 1] \in {"$", "&", Backtick, "'"}
                     \* the second sign of $$ starts no pattern
                     /\ \A h \in k..(j - 1) :
                          (replacement[h] = "$" /\ replacement[h + 1] = "$")
                            => h + 1 # j}
  IN IF patterns = {} THEN SubSeq(replacement, k, Len(replacement))
     ELSE LET j == Min(patterns)
              c == replacement[j + 1]
          IN SubSeq(replacement, k, j - 1)
             \o (CASE c = "$" -> <<"$">>
                   [] c = "&" -> matched
                   [] c = Backtick -> SubSeq(str, 1, position - 1)
                   [] c = "'" -> SubSeq(str, position + Len(matched), Len(str)))
             \o GetSubstitution(matched, str, position, replacement, j + 2)

\* str.replace(new RegExp(<pattern, every character literal>, 'g'), replacement)
\* from position i of str on
RECURSIVE ReplaceLiteralFrom(_, _, _, _)
ReplaceLiteralFrom(str, pattern, replacement, i) ==
  LET hits == {j \in i..Len(str) : StartsWithAt(str, j, pattern)}
  IN IF hits = {} THEN SubSeq(str, i, Len(str))
     ELSE LET j == Min(hits)
          IN SubSeq(str, i, j - 1)
             \o GetSubstitution(pattern, str, j, replacement, 1)
             \o ReplaceLiteralFrom(str, pattern, replacement, j + Len(pattern))

ReplaceLiteral(str, pattern, replacement) ==
  ReplaceLiteralFrom(str, pattern, replacement, 1)

\* ------------------------------------------------ inline regular expressions
\* The result of trying a regular expression at one position of a string:
\* no match, or the index after the match and the captured groups.
NoMatch == [ok |-> FALSE]
Match(next, g1, g2) == [ok |-> TRUE, next |-> next, g1 |-> g1, g2 |-> g2]

\* /`([^`]+)`/ tried at position i
codeRegex(s, i) ==
  IF s[i] # Backtick THEN NoMatch
  ELSE LET j == IndexOfFrom(s, {Backtick}, i + 1)
       IN IF j > i + 1
          THEN Match(j + 1, SubSeq(s, i + 1, j - 1), <<>>)
          ELSE NoMatch

\* /\[([^\]]+)\]\((https?:\/\/[^\s)]+)\)/ tried at position i
linkRegex(s, i) ==
  IF s[i] # "[" THEN NoMatch
  ELSE LET j == IndexOfFrom(s, {"]"}, i + 1)
           u == j + 2
           k == IF StartsWithAt(s, u, SchemeHttp \o <<"s">> \o SchemeSep)
                THEN u + Len(SchemeHttp) + 1 + Len(SchemeSep)
                ELSE IF StartsWithAt(s, u, SchemeHttp \o SchemeSep)
                THEN u + Len(SchemeHttp) + Len(SchemeSep)
                ELSE 0
           e == IF k = 0 THEN 0 ELSE IndexOfFrom(s, WhiteSpace \cup {")"}, k)
       IN IF /\ j > i + 1
             /\ j + 1 <= Len(s)
             /\ s[j + 1] = "("
             /\ k > 0
             /\ e > k
             /\ s[e] = ")"
          THEN Match(e + 1, SubSeq(s, i + 1, j - 1), SubSeq(s, u, e - 1))
          ELSE NoMatch

\* /\*\*([^*]+)\*\*/ and /__([^_]+)__/ tried at position i (c is the marker)
boldRegex(s, i, c) ==
  IF ~StartsWithAt(s, i, <<c, c>>) THEN NoMatch
  ELSE LET j == IndexOfFrom(s, {c}, i + 2)
       IN IF j > i + 2 /\ StartsWithAt(s, j, <<c, c>>)
          THEN Match(j + 2, SubSeq(s, i + 2, j - 1), <<>>)
          ELSE NoMatch

\* a faulty italic expression without the lookbehind, which takes the second
\* character of a double marker for an opening marker: C24 must reject it
italicRegexNoLookbehind(s, i, c) ==
  IF s[i] # c THEN NoMatch
  ELSE LET j == IndexOfFrom(s, {c}, i + 1)
       IN IF j > i + 1 /\ (j = Len(s) \/ s[j + 1] # c)
          THEN Match(j + 1, SubSeq(s, i + 1, j - 1), <<>>)
          ELSE NoMatch

\* /(?<!\*)\*([^*]+)\*(?!\*)/ and /(?<!_)_([^_]+)_(?!_)/ tried at position i
italicRegex(s, i, c) ==
  IF s[i] # c \/ (i > 1 /\ s[i - 1] = c) THEN NoMatch
  ELSE LET j == IndexOfFrom(s, {c}, i + 1)
       IN IF j > i + 1 /\ (j = Len(s) \/ s[j + 1] # c)
          THEN Match(j + 1, SubSeq(s, i + 1, j - 1), <<>>)
          ELSE NoMatch

transformers == <<"code", "link">>
styleTransformers == <<"boldStar", "boldUnderscore", "italicStar", "italicUnderscore">>

RegexAt(kind, s, i) ==
  CASE kind = "code" -> codeRegex(s, i)
    [] kind = "link" -> linkRegex(s, i)
    [] kind = "boldStar" -> boldRegex(s, i, "*")
    [] kind = "boldUnderscore" -> boldRegex(s, i, "_")
    [] kind = "italicStar" -> italicRegex(s, i, "*")
    [] kind = "italicUnderscore" -> italicRegex(s, i, "_")

\* ---------------------------------------------------------- Inline Renderer
MAX_DEPTH == 10

\* RenderInline is renderInlineMarkdown together with an observation of the
\* call tree below it: maxDepth, the greatest depth argument of any invocation
\* in it.
RECURSIVE RenderInline(_, _)

Leaf(out, depth) == [out |-> out, maxDepth |-> depth]

\* a faulty guard, depth <= MAX_DEPTH, that recurses once more at the ceiling:
\* C7 must reject it
InnerRenderOffByOne(value, depth) ==
  IF depth <= MAX_DEPTH
  THEN RenderInline(value, depth + 1)
  ELSE Leaf(escapeHtml(value), depth)

\* depth < MAX_DEPTH ? renderInlineMarkdown(value, depth + 1) : escapeHtml(value)
InnerRender(value, depth) ==
  IF depth < MAX_DEPTH
  THEN RenderInline(value, depth + 1)
  ELSE Leaf(escapeHtml(value), depth)

\* inner between an opening and a closing piece of markup
Wrap(open, inner, close) == [inner EXCEPT !.out = open \o @ \o close]

renderNested(value, tag, depth) ==
  Wrap(<<"<">> \o tag \o <<">">>, InnerRender(value, depth),
       <<"<", "/">> \o tag \o <<">">>)

\* the handler of a transformer, applied to a match: the HTML it stores
Handler(kind, m, depth) ==
  CASE kind = "code" ->
         Leaf(CodeOpen \o escapeHtml(m.g1) \o CodeClose, depth)
    [] kind = "link" ->
         Wrap(AnchorOpen \o escapeHtmlAttribute(m.g2) \o AnchorAttrs,
              InnerRender(m.g1, depth), AnchorClose)
    [] kind \in {"boldStar", "boldUnderscore"} ->
         renderNested(m.g1, TagStrong, depth)
    [] kind \in {"italicStar", "italicUnderscore"} ->
         renderNested(m.g1, TagEm, depth)

placeholderOf(n) == PlaceholderPrefix \o NatToStr(n) \o TokenSuffix
keyOf(n) == KeyPrefix \o NatToStr(n) \o TokenSuffix

\* placeholderFor: the table with one more entry, for html
placeholderFor(placeholders, html) ==
  Append(placeholders,
         [key |-> keyOf(Len(placeholders)),
          placeholder |-> placeholderOf(Len(placeholders)),
          html |-> html])

\* the match m, found at position j
At(m, j) == [ok |-> TRUE, at |-> j, next |-> m.next, g1 |-> m.g1, g2 |-> m.g2]

\* the leftmost match of a transformer's regular expression at or after
\* position i of s
FirstMatchAt(kind, s, j) ==
  IF j = 0 THEN NoMatch ELSE At(RegexAt(kind, s, j), j)

FirstMatch(kind, s, i) ==
  FirstMatchAt(kind, s,
    IF \E j \in i..Len(s) : RegexAt(kind, s, j).ok
    THEN Min({j \in i..Len(s) : RegexAt(kind, s, j).ok}) ELSE 0)

\* the state of a replace after the match m, whose handler returned h: the
\* text before the match is copied and the match becomes a new placeholder
Replaced(s, i, st, m, h) ==
  [st EXCEPT
     !.working = @ \o SubSeq(s, i, m.at - 1)
                   \o placeholderOf(Len(st.placeholders)),
     !.placeholders = placeholderFor(@, h.out),
     !.maxDepth = IF h.maxDepth > @ THEN h.maxDepth ELSE @]

\* working.replace(transformer.regex, transformer.handler), from position i of
\* s on; st.working is the result built so far
RECURSIVE ReplaceWith(_, _, _, _, _)

ReplaceAt(kind, s, i, st, depth, m) ==
  IF ~m.ok THEN [st EXCEPT !.working = @ \o SubSeq(s, i, Len(s))]
  ELSE ReplaceWith(kind, s, m.next,
         Replaced(s, i, st, m, Handler(kind, m, depth)), depth)

ReplaceWith(kind, s, i, st, depth) ==
  ReplaceAt(kind, s, i, st, depth, FirstMatch(kind, s, i))

\* the transformers kinds[k], kinds[k + 1], ... applied in turn; a replace
\* leaves the empty text as it is
RECURSIVE ApplyTransformers(_, _, _, _)
ApplyTransformers(kinds, k, st, depth) ==
  IF k > Len(kinds) \/ st.working = <<>> THEN st
  ELSE ApplyTransformers(kinds, k + 1,
         ReplaceWith(kinds[k], st.working, 1, [st EXCEPT !.working = <<>>], depth),
         depth)

\* the first resolution loop: every placeholder becomes its key
RECURSIVE PlaceholdersToKeys(_, _, _)
PlaceholdersToKeys(escaped, placeholders, k) ==
  IF k > Len(placeholders) THEN escaped
  ELSE PlaceholdersToKeys(
         ReplaceLiteral(escaped, placeholders[k].placeholder, placeholders[k].key),
         placeholders, k + 1)

\* the second resolution loop: every key becomes its stored HTML
RECURSIVE KeysToHtml(_, _, _)
KeysToHtml(escaped, placeholders, k) ==
  IF k > Len(placeholders) THEN escaped
  ELSE KeysToHtml(
         ReplaceLiteral(escaped, placeholders[k].key, placeholders[k].html),
         placeholders, k + 1)

\* escapeHtml(working) and the two resolution loops
Resolve(st) ==
  [maxDepth |-> st.maxDepth,
   out |-> KeysToHtml(
             PlaceholdersToKeys(escapeHtml(st.working), st.placeholders, 1),
             st.placeholders, 1)]

RenderInline(content, depth) ==
  IF content = Undefined THEN Leaf(<<>>, depth)
  ELSE IF trim(content) = <<>> THEN Leaf(<<>>, depth)
  ELSE Resolve(
         ApplyTransformers(styleTransformers, 1,
           ApplyTransformers(transformers, 1,
             [working |-> content, placeholders |-> <<>>, maxDepth |-> depth],
             depth),
           depth))

renderInlineMarkdown(content, depth) == RenderInline(content, depth).out

\* ------------------------------------------------- line regular expressions
\* the dot of a regular expression matches no line terminator, so (.*)$
\* matches the rest of a line only when the rest holds none
DotStar(rest) == \A i \in 1..Len(rest) : rest[i] \notin LineTerminators

RestFrom(s, k) == SubSeq(s, k, Len(s))

\* the number of times c leads s
LeadingRun(s, cs) == SkipWhile(s, cs, 1) - 1

\* text.split(/\r?\n/), from position i of text on
RECURSIVE SplitLinesFrom(_, _)
SplitLinesFrom(str, i) ==
  LET j == IndexOfFrom(str, {"\n"}, i)
  IN IF j = 0 THEN <<SubSeq(str, i, Len(str))>>
     ELSE <<SubSeq(str, i, IF j - 1 >= i /\ str[j - 1] = "\r" THEN j - 2 ELSE j - 1)>>
          \o SplitLinesFrom(str, j + 1)

SplitLines(str) == SplitLinesFrom(str, 1)

\* trimmed.match(/^(#{1,6})\s*(.*)$/) of markdownToHtml
headingMatchHtml(trimmed) ==
  LET n == LeadingRun(trimmed, {"#"})
      g == IF n > 6 THEN 6 ELSE n
      rest == RestFrom(trimmed, SkipWhile(trimmed, WhiteSpace, g + 1))
  IN IF n >= 1 /\ DotStar(rest)
     THEN Match(Len(trimmed) + 1, SubSeq(trimmed, 1, g), rest)
     ELSE NoMatch

\* trimmed.match(/^(#{1,6})\s+(.*)$/) of markdownToDivHtml
headingMatchDiv(trimmed) ==
  LET n == LeadingRun(trimmed, {"#"})
      rest == RestFrom(trimmed, SkipWhile(trimmed, WhiteSpace, n + 1))
  IN IF /\ n >= 1
        /\ n <= 6
        /\ n + 1 <= Len(trimmed)
        /\ trimmed[n + 1] \in WhiteSpace
        /\ DotStar(rest)
     THEN Match(Len(trimmed) + 1, SubSeq(trimmed, 1, n), rest)
     ELSE NoMatch

\* /^(-{3,}|_{3,}|\*{3,})$/.test(trimmed)
dividerTest(trimmed) ==
  /\ Len(trimmed) >= 3
  /\ \E c \in {"-", "_", "*"} : \A i \in 1..Len(trimmed) : trimmed[i] = c

\* trimmed.match(/^>\s?(.*)$/)
blockquoteMatch(trimmed) ==
  LET k == IF Len(trimmed) >= 2 /\ trimmed[2] \in WhiteSpace THEN 3 ELSE 2
      rest == RestFrom(trimmed, k)
  IN IF Len(trimmed) >= 1 /\ trimmed[1] = ">" /\ DotStar(rest)
     THEN Match(Len(trimmed) + 1, rest, <<>>)
     ELSE NoMatch

\* trimmed.match(/^(\d+)[.)]\s+(.*)$/)
orderedMatch(trimmed) ==
  LET d == LeadingRun(trimmed, {DigitChars[i] : i \in 1..10})
      rest == RestFrom(trimmed, SkipWhile(trimmed, WhiteSpace, d + 2))
  IN IF /\ d >= 1
        /\ d + 2 <= Len(trimmed)
        /\ trimmed[d + 1] \in {".", ")"}
        /\ trimmed[d + 2] \in WhiteSpace
        /\ DotStar(rest)
     THEN Match(Len(trimmed) + 1, SubSeq(trimmed, 1, d), rest)
     ELSE NoMatch

\* a faulty item expression, /^[-*+]\s*(.*)$/, that asks for no white space
\* after the marker: C25 must reject it
unorderedMatchLoose(trimmed) ==
  LET rest == RestFrom(trimmed, SkipWhile(trimmed, WhiteSpace, 2))
  IN IF /\ Len(trimmed) >= 2
        /\ trimmed[1] \in {"-", "*", "+"}
        /\ DotStar(rest)
     THEN Match(Len(trimmed) + 1, rest, <<>>)
     ELSE NoMatch

\* trimmed.match(/^[-*+]\s+(.*)$/)
unorderedMatch(trimmed) ==
  LET rest == RestFrom(trimmed, SkipWhile(trimmed, WhiteSpace, 2))
  IN IF /\ Len(trimmed) >= 2
        /\ trimmed[1] \in {"-", "*", "+"}
        /\ trimmed[2] \in WhiteSpace
        /\ DotStar(rest)
     THEN Match(Len(trimmed) + 1, rest, <<>>)
     ELSE NoMatch

\* /^[-–—]$/.test(trimmed)
singleDashTest(trimmed) == Len(trimmed) = 1 /\ trimmed[1] \in DashLike

\* trimmed.match(/^[-–—]\s*(.*)$/)
dashParagraphMatch(trimmed) ==
  LET rest == RestFrom(trimmed, SkipWhile(trimmed, WhiteSpace, 2))
  IN IF Len(trimmed) >= 1 /\ trimmed[1] \in DashLike /\ DotStar(rest)
     THEN Match(Len(trimmed) + 1, rest, <<>>)
     ELSE NoMatch

\* /:\s*$/.test(content)
endsWithColon(content) ==
  LET keep == {i \in 1..Len(content) : content[i] \notin WhiteSpace}
  IN keep # {} /\ content[Max(keep)] = ":"

\* content.replace(/:\s*$/, '')
stripColon(content) ==
  LET keep == {i \in 1..Len(content) : content[i] \notin WhiteSpace}
  IN IF endsWithColon(content) THEN SubSeq(content, 1, Max(keep) - 1) ELSE content

\* value.replace(/\s+/g, ' '), from position i of s on
RECURSIVE CollapseFrom(_, _)
CollapseFrom(s, i) ==
  LET j == IndexOfFrom(s, WhiteSpace, i)
  IN IF j = 0 THEN SubSeq(s, i, Len(s))
     ELSE SubSeq(s, i, j - 1) \o <<" ">> \o CollapseFrom(s, SkipWhile(s, WhiteSpace, j))

CollapseWhiteSpace(s) == CollapseFrom(s, 1)

\* ------------------------------------------------------- Block Segmenter
\* The state of one conversion call is a record c:
\*   segments, paragraphBuffer, listContext  the locals of the converter;
\*   threw        whether the call has raised an exception;
\*   blocks       history: for every segment pushed, the block it renders
\*                (kind, heading level, list type, source texts, ordinals and
\*                the number of the source line that opened the block);
\*   bufferLine   history: the number of the line that opened paragraphBuffer.
Profiles == {"Semantic", "DivWrapped"}

\* an ordinal of null or undefined
NoOrdinal == <<"NULL">>
\* listContext = null
NoList == [type |-> "none", items |-> <<>>, line |-> 0]

\* the truthiness of item.ordinal
Truthy(ordinal) == ordinal # NoOrdinal /\ ordinal # <<"0">>

Block(kind, level, listType, texts, ordinals, line) ==
  [kind |-> kind, level |-> level, listType |-> listType, texts |-> texts,
   ordinals |-> ordinals, line |-> line]

\* segments.push(html), recording the block it renders
Push(c, html, block) ==
  [c EXCEPT !.segments = Append(@, html), !.blocks = Append(@, block)]

NonEmptyItems(items) == SelectSeq(items, LAMBDA item : trim(item.content) # <<>>)

ListBlock(ctx) ==
  LET filtered == NonEmptyItems(ctx.items)
  IN Block("list", 0, ctx.type,
           [i \in DOMAIN filtered |-> filtered[i].content],
           [i \in DOMAIN filtered |-> filtered[i].ordinal], ctx.line)

startValueOf(ctx) ==
  IF ctx.type = "ordered" /\ Truthy(ctx.items[1].ordinal)
  THEN ctx.items[1].ordinal ELSE <<"1">>

\* ${startValue} is the sequence that stands for the number
startAttrOf(ctx) ==
  IF ctx.type = "ordered" /\ startValueOf(ctx) # <<"1">>
  THEN StartAttrOpen \o startValueOf(ctx) \o <<"\"">> ELSE <<>>

\* index is the 0-based position of the item among the non-empty items
valueAttrOf(ctx, item, index) ==
  IF /\ ctx.type = "ordered"
     /\ Truthy(item.ordinal)
     /\ item.ordinal # NumberPlus(startValueOf(ctx), index)
  THEN ValueAttrOpen \o item.ordinal \o <<"\"">> ELSE <<>>

\* ---- markdownToDivHtml
clearBuffer(c) == [c EXCEPT !.paragraphBuffer = <<>>]
closeList(c) == [c EXCEPT !.listContext = NoList]

pushParagraphDiv(c, textContent) ==
  IF textContent # <<>>
  THEN Push(c, DivParagraphOpen \o renderInlineMarkdown(textContent, 0) \o DivClose,
            Block("paragraph", 0, "none", c.paragraphBuffer, <<>>, c.bufferLine))
  ELSE c

\* a faulty flushParagraph that forgets to collapse the runs of white space:
\* C5 must reject it
flushParagraphDivUncollapsed(c) ==
  IF c.paragraphBuffer = <<>> THEN c
  ELSE clearBuffer(pushParagraphDiv(c, trim(Join(c.paragraphBuffer, <<" ">>))))

flushParagraphDiv(c) ==
  IF c.paragraphBuffer = <<>> THEN c
  ELSE clearBuffer(pushParagraphDiv(c,
         trim(CollapseWhiteSpace(Join(c.paragraphBuffer, <<" ">>)))))

\* a faulty item loop that applies the colon nesting of markdownToHtml: C15
\* must reject it
listItemsDivNested(ctx, filtered) ==
  Flatten([i \in DOMAIN filtered |->
             LiOpen \o valueAttrOf(ctx, filtered[i], i - 1) \o <<">">>
             \o renderInlineMarkdown(filtered[i].content, 0)
             \o (IF endsWithColon(trim(filtered[i].content)) /\ i < Len(filtered)
                 THEN NestedOpen
                      \o renderInlineMarkdown(filtered[i + 1].content, 0)
                      \o NestedClose
                 ELSE <<>>)
             \o LiClose])

listItemsDiv(ctx, filtered) ==
  Flatten([i \in DOMAIN filtered |->
             LiOpen \o valueAttrOf(ctx, filtered[i], i - 1) \o <<">">>
             \o renderInlineMarkdown(filtered[i].content, 0) \o LiClose])

pushListDiv(c, ctx, items) ==
  IF items # <<>>
  THEN Push(c, DivClassOpen
                 \o (IF ctx.type = "ordered" THEN ClassListOrdered
                                             ELSE ClassListUnordered)
                 \o <<"\"", ">", "<">>
                 \o (IF ctx.type = "ordered" THEN TagOl ELSE TagUl)
                 \o startAttrOf(ctx) \o <<">">> \o items \o <<"<", "/">>
                 \o (IF ctx.type = "ordered" THEN TagOl ELSE TagUl)
                 \o <<">">> \o DivClose,
            ListBlock(ctx))
  ELSE c

flushListDiv(c) ==
  IF c.listContext = NoList \/ c.listContext.items = <<>> THEN closeList(c)
  ELSE closeList(pushListDiv(c, c.listContext,
         listItemsDiv(c.listContext, NonEmptyItems(c.listContext.items))))

\* ---- markdownToHtml
pushParagraphHtml(c, renderedLines) ==
  IF renderedLines # <<>>
  THEN Push(c, POpen \o Join(renderedLines, PBreak) \o PClose,
            Block("paragraph", 0, "none", c.paragraphBuffer, <<>>, c.bufferLine))
  ELSE c

renderLines(trimmedLines) ==
  [i \in DOMAIN trimmedLines |-> renderInlineMarkdown(trimmedLines[i], 0)]

flushParagraphHtml(c) ==
  IF c.paragraphBuffer = <<>> THEN c
  ELSE clearBuffer(pushParagraphHtml(c,
         renderLines(SelectSeq(
           [i \in DOMAIN c.paragraphBuffer |-> trim(c.paragraphBuffer[i])],
           LAMBDA line : Len(line) > 0))))

\* a faulty loop that nests the following item without consuming it: C14
\* must reject it
RECURSIVE ListItemsHtmlKeepingNext(_, _, _)
ListItemsHtmlKeepingNext(ctx, filtered, i) ==
  IF i >= Len(filtered) THEN <<>>
  ELSE IF /\ ctx.type # "ordered"
          /\ endsWithColon(trim(filtered[i + 1].content))
          /\ i + 1 < Len(filtered)
  THEN LiOpen \o <<">">>
       \o renderInlineMarkdown(stripColon(trim(filtered[i + 1].content)), 0)
       \o NestedOpen \o renderInlineMarkdown(filtered[i + 2].content, 0)
       \o NestedClose \o LiClose
       \o ListItemsHtmlKeepingNext(ctx, filtered, i + 1)
  ELSE LiOpen \o valueAttrOf(ctx, filtered[i + 1], i) \o <<">">>
       \o renderInlineMarkdown(filtered[i + 1].content, 0) \o LiClose
       \o ListItemsHtmlKeepingNext(ctx, filtered, i + 1)

\* the loop of flushList over the non-empty items, from the 0-based index i on
RECURSIVE ListItemsHtml(_, _, _)
ListItemsHtml(ctx, filtered, i) ==
  IF i >= Len(filtered) THEN <<>>
  ELSE IF /\ ctx.type # "ordered"
          /\ endsWithColon(trim(filtered[i + 1].content))
          /\ i + 1 < Len(filtered)
  THEN LiOpen \o <<">">>
       \o renderInlineMarkdown(stripColon(trim(filtered[i + 1].content)), 0)
       \o NestedOpen \o renderInlineMarkdown(filtered[i + 2].content, 0)
       \o NestedClose \o LiClose
       \o ListItemsHtml(ctx, filtered, i + 2)
  ELSE LiOpen \o valueAttrOf(ctx, filtered[i + 1], i) \o <<">">>
       \o renderInlineMarkdown(filtered[i + 1].content, 0) \o LiClose
       \o ListItemsHtml(ctx, filtered, i + 1)

pushListHtml(c, ctx, items) ==
  IF items # <<>>
  THEN Push(c, <<"<">> \o (IF ctx.type = "ordered" THEN TagOl ELSE TagUl)
                 \o startAttrOf(ctx)
                 \o (IF ctx.type = "ordered" THEN StyleOrdered ELSE StyleUnordered)
                 \o <<">">> \o items \o <<"<", "/">>
                 \o (IF ctx.type = "ordered" THEN TagOl ELSE TagUl) \o <<">">>,
            ListBlock(ctx))
  ELSE c

flushListHtml(c) ==
  IF c.listContext = NoList \/ c.listContext.items = <<>> THEN closeList(c)
  ELSE closeList(pushListHtml(c, c.listContext,
         ListItemsHtml(c.listContext, NonEmptyItems(c.listContext.items), 0)))

\* ---- the parts the two converters share, p being the profile
flushParagraph(p, c) ==
  IF p = "Semantic" THEN flushParagraphHtml(c) ELSE flushParagraphDiv(c)

flushList(p, c) ==
  IF p = "Semantic" THEN flushListHtml(c) ELSE flushListDiv(c)

\* flushParagraph(); flushList();
flushBoth(p, c) == flushList(p, flushParagraph(p, c))

\* a faulty ensureList that opens a list only to replace one of the other
\* type, and so leaves listContext null before the first item: C6 must reject it
ensureListOnSwitchOnly(p, c, type, n) ==
  IF c.listContext # NoList /\ c.listContext.type # type
  THEN [flushBoth(p, c) EXCEPT
          !.listContext = [type |-> type, items |-> <<>>, line |-> n]]
  ELSE c

\* a faulty ensureList that turns the open list into one of the other type
\* and keeps its items: C26 must reject it
ensureListRetyping(p, c, type, n) ==
  IF c.listContext = NoList
  THEN [flushBoth(p, c) EXCEPT
          !.listContext = [type |-> type, items |-> <<>>, line |-> n]]
  ELSE [c EXCEPT !.listContext.type = type]

\* a faulty ensureList that flushes the paragraph but forgets to flush the
\* open list before it starts the new one: C29 must reject it
ensureListDropping(p, c, type, n) ==
  IF c.listContext = NoList \/ c.listContext.type # type
  THEN [flushParagraph(p, c) EXCEPT
          !.listContext = [type |-> type, items |-> <<>>, line |-> n]]
  ELSE c

\* n is the number of the line being read
ensureList(p, c, type, n) ==
  IF c.listContext = NoList \/ c.listContext.type # type
  THEN [flushBoth(p, c) EXCEPT
          !.listContext = [type |-> type, items |-> <<>>, line |-> n]]
  ELSE c

\* listContext.items.push(item): a TypeError when listContext is null
pushItem(c, item) ==
  IF c.listContext = NoList THEN [c EXCEPT !.threw = TRUE]
  ELSE [c EXCEPT !.listContext.items = Append(@, item)]

\* paragraphBuffer.push(line)
pushParagraphLine(c, line, n) ==
  [c EXCEPT !.paragraphBuffer = Append(@, line),
            !.bufferLine = IF c.paragraphBuffer = <<>> THEN n ELSE @]

headingMatch(p, trimmed) ==
  IF p = "Semantic" THEN headingMatchHtml(trimmed) ELSE headingMatchDiv(trimmed)

headingHtml(p, level, content) ==
  IF p = "Semantic"
  THEN HOpen \o NatToStr(level) \o <<">">> \o renderInlineMarkdown(content, 0)
       \o HCloseOpen \o NatToStr(level) \o <<">">>
  ELSE DivHeadingOpen \o NatToStr(level) \o <<"\"", ">">>
       \o renderInlineMarkdown(content, 0) \o DivClose

dividerHtml(p) == IF p = "Semantic" THEN Hr ELSE DivDivider

blockquoteHtml(p, content) ==
  IF p = "Semantic"
  THEN BlockquoteOpen \o renderInlineMarkdown(content, 0) \o BlockquoteClose
  ELSE DivBlockquoteOpen \o renderInlineMarkdown(content, 0) \o DivClose

\* a faulty blank line that closes the open list: C11 must reject it
blankLineClosingList(p, c) == flushBoth(p, c)

\* a blank line: markdownToDivHtml pushes an empty item on an open list
blankLine(p, c) ==
  IF c.listContext # NoList
  THEN IF p = "Semantic" THEN c
       ELSE pushItem(c, [ordinal |-> NoOrdinal, content |-> <<>>])
  ELSE flushParagraph(p, c)

\* the body of the loop over the lines, for line number n
ProcessLine(p, c, rawLine, n) ==
  LET trimmed == trim(rawLine)
      heading == headingMatch(p, trimmed)
      quote == blockquoteMatch(trimmed)
      ordered == orderedMatch(trimmed)
      unordered == unorderedMatch(trimmed)
      dash == dashParagraphMatch(trimmed)
  IN IF trimmed = <<>> THEN blankLine(p, c)
     ELSE IF heading.ok
     THEN LET level == IF Len(heading.g1) < 6 THEN Len(heading.g1) ELSE 6
          IN Push(flushBoth(p, c), headingHtml(p, level, heading.g2),
                  Block("heading", level, "none", <<heading.g2>>, <<>>, n))
     ELSE IF dividerTest(trimmed)
     THEN Push(flushBoth(p, c), dividerHtml(p), Block("divider", 0, "none", <<>>, <<>>, n))
     ELSE IF quote.ok
     THEN Push(flushBoth(p, c), blockquoteHtml(p, quote.g1),
               Block("blockquote", 0, "none", <<quote.g1>>, <<>>, n))
     ELSE IF ordered.ok /\ trim(ordered.g2) # <<>>
     THEN pushItem(ensureList(p, c, "ordered", n),
                   [ordinal |-> StrToNat(ordered.g1), content |-> ordered.g2])
     ELSE IF unordered.ok /\ trim(unordered.g1) # <<>>
     THEN pushItem(ensureList(p, c, "unordered", n),
                   [ordinal |-> NoOrdinal, content |-> unordered.g1])
     ELSE IF singleDashTest(trimmed) THEN flushParagraph(p, c)
     ELSE IF dash.ok /\ dash.g1 # <<>>
     THEN pushParagraphLine(flushParagraph(p, c), dash.g1, n)
     ELSE pushParagraphLine(flushList(p, c), trimmed, n)

\* the statements after the loop
Finish(p, c) == flushBoth(p, c)

\* =================================================================== state
VARIABLES
  input,            \* the argument of the two converters: a string or Undefined
  pc,               \* per profile: "idle", "loop" (inside the line loop), "done";
                    \* "unused" in a behaviour of the inline renderer alone
  lineNo,           \* per profile: the number of the next line of the loop
  segments,         \* per profile: the local segments
  paragraphBuffer,  \* per profile: the local paragraphBuffer
  listContext,      \* per profile: the local listContext
  result,           \* per profile: the value returned (when pc is "done")
  threw,            \* per profile: the call ended in an exception
  blocks,           \* per profile, history: the blocks behind the segments
  bufferLine,       \* per profile, history: the line that opened the buffer
  text,             \* the text argument of an invocation of renderInlineMarkdown
  depth,            \* its depth argument
  inlinePc,         \* "idle" or "done"; "unused" in a behaviour of the converters
  inlineResult      \* what the invocation returned, with its observations

vars == <<input, pc, lineNo, segments, paragraphBuffer, listContext, result,
          threw, blocks, bufferLine, text, depth, inlinePc, inlineResult>>
blockVars == <<input, pc, lineNo, segments, paragraphBuffer, listContext, result,
               threw, blocks, bufferLine>>
inlineVars == <<text, depth, inlinePc, inlineResult>>

\* the value of result before the call returns
NotReturned == <<"NOT-RETURNED">>

\* ------------------------------------------------------------------ inputs
MaxLines == 3
MaxInlineTokens == 4
MaxPlainTokens == 3

TokenStrings(tokens, n) ==
  {Flatten(ts) : ts \in UNION {[1..k -> tokens] : k \in 0..n}}

Lines ==
  { <<>>,
    <<NoBreakSpace, "p", " ", FormFeed, "&", "<", "\"", "'", "q">>,
    <<"#", "#", " ", "H">>,
    <<"#", "#", "#", "#", "#", "#", "#", " ", "T">>,
    <<"#", "T">>,
    <<"-", "-", "-">>,
    <<">", " ", "<", "q", ">">>,
    <<"-", " ", "*", "*", "i", "&", "*", "*">>,
    <<"1", ".", " ", "o">>,
    <<"-", "t">>,
    <<"-">> }

\* pieces of one-line texts without markdown structure
PlainTokens ==
  { <<"a">>, <<" ">>, <<" ", "\t">>, <<NoBreakSpace, FormFeed>>, <<"&">>, <<"<", "\"", "'">>, <<"$">>,
    <<"@", "@", "M", "D", "0", "@", "@">>, <<":">>, <<"1", ".">>, <<"-">>,
    <<"+">> }

PlainTexts == TokenStrings(PlainTokens, MaxPlainTokens)

\* a text of white space only, none of it a space, a tab or a line break
BlankText == <<NoBreakSpace, LineSeparator, VerticalTab, "U+3000">>

Documents ==
  {Join(ls, <<"\n">>) : ls \in UNION {[1..k -> Lines] : k \in 1..MaxLines}}
    \cup {BlankText}

InlineTokens ==
  { <<"a">>, <<"&">>, <<"<", ">", "\"", "'">>, <<"$">>, <<"*">>, <<"*", "*">>,
    <<Backtick>>, <<"[">>,
    <<"]", "(", "h", "t", "t", "p", "s", ":", "/", "/", "x", ")">>,
    <<"@", "@", "M", "D", "0", "@", "@">> }

\* a marker pair, a code span or a link around a text
Wrappers ==
  { <<(<<"*", "*">>), (<<"*", "*">>)>>,
    <<(<<"_", "_">>), (<<"_", "_">>)>>,
    <<(<<"*">>), (<<"*">>)>>,
    <<(<<"_">>), (<<"_">>)>>,
    <<(<<Backtick>>), (<<Backtick>>)>>,
    <<(<<"[">>), (<<"]", "(", "h", "t", "t", "p", ":", "/", "/", "y", ")">>)>>,
    <<(<<"[">>), (<<"]", "(", "f", "t", "p", ":", "/", "/", "x", ")">>)>>,
    <<(<<"[", "a", "]", "(", "h", "t", "t", "p", "s", ":", "/", "/">>), (<<")">>)>> }

InlineTexts == TokenStrings(InlineTokens, MaxInlineTokens)

WrappedTexts ==
  {w[1] \o s \o w[2] :
     w \in Wrappers, s \in TokenStrings(InlineTokens, MaxInlineTokens - 1)}

\* the depth arguments of an invocation: 0, what every call site outside the
\* function passes by default, and the ceiling, the greatest depth the guard
\* depth < MAX_DEPTH lets a nested invocation have
Depths == {0, MAX_DEPTH}
\* the ceiling is tried on the shorter texts
DeepTexts ==
  {w[1] \o s \o w[2] :
     w \in Wrappers, s \in TokenStrings(InlineTokens, MaxInlineTokens - 2)}

\* ---------------------------------------------------- the block converters
Locals(p) ==
  [segments |-> segments[p], paragraphBuffer |-> paragraphBuffer[p],
   listContext |-> listContext[p], threw |-> threw[p], blocks |-> blocks[p],
   bufferLine |-> bufferLine[p]]

SetLocals(p, c) ==
  /\ segments' = [segments EXCEPT ![p] = c.segments]
  /\ paragraphBuffer' = [paragraphBuffer EXCEPT ![p] = c.paragraphBuffer]
  /\ listContext' = [listContext EXCEPT ![p] = c.listContext]
  /\ threw' = [threw EXCEPT ![p] = c.threw]
  /\ blocks' = [blocks EXCEPT ![p] = c.blocks]
  /\ bufferLine' = [bufferLine EXCEPT ![p] = c.bufferLine]

\* const lines = text.split(/\r?\n/)
InputLines == SplitLines(input)

\* a faulty guard that forgets trim(): C4 must reject it
NoValueUntrimmed(in) == in = Undefined \/ in = <<>>

\* the input is absent, empty or blank: the converters return undefined
NoValue(in) == in = Undefined \/ trim(in) = <<>>

\* markdownToHtml(input) or markdownToDivHtml(input) is called; JavaScript runs
\* one call at a time
Call(p) ==
  /\ pc[p] = "idle"
  /\ \A q \in Profiles : pc[q] # "loop"
  /\ pc' = [pc EXCEPT ![p] = IF NoValue(input) THEN "done" ELSE "loop"]
  /\ result' = [result EXCEPT ![p] = IF NoValue(input) THEN Undefined ELSE @]
  /\ UNCHANGED <<input, lineNo, segments, paragraphBuffer, listContext,
                 threw, blocks, bufferLine>>
  /\ UNCHANGED inlineVars

\* the locals after one iteration; an exception ends the call
Continue(p, c) ==
  /\ SetLocals(p, c)
  /\ pc' = [pc EXCEPT ![p] = IF c.threw THEN "done" ELSE "loop"]

\* one iteration of for (const rawLine of lines)
Line(p) ==
  /\ pc[p] = "loop"
  /\ lineNo[p] <= Len(InputLines)
  /\ Continue(p, ProcessLine(p, Locals(p), InputLines[lineNo[p]], lineNo[p]))
  /\ lineNo' = [lineNo EXCEPT ![p] = @ + 1]
  /\ UNCHANGED <<input, result>>
  /\ UNCHANGED inlineVars

\* return segments.join('')
ReturnJoined(p, c) ==
  /\ SetLocals(p, c)
  /\ result' = [result EXCEPT ![p] = Flatten(c.segments)]

\* the final flushes and the return
Return(p) ==
  /\ pc[p] = "loop"
  /\ lineNo[p] > Len(InputLines)
  /\ ReturnJoined(p, Finish(p, Locals(p)))
  /\ pc' = [pc EXCEPT ![p] = "done"]
  /\ UNCHANGED <<input, lineNo>>
  /\ UNCHANGED inlineVars

\* A behaviour follows the calls of the two converters on one input, or one
\* invocation of renderInlineMarkdown.
BlockIdle ==
  /\ lineNo = [p \in Profiles |-> 1]
  /\ segments = [p \in Profiles |-> <<>>]
  /\ paragraphBuffer = [p \in Profiles |-> <<>>]
  /\ listContext = [p \in Profiles |-> NoList]
  /\ result = [p \in Profiles |-> NotReturned]
  /\ threw = [p \in Profiles |-> FALSE]
  /\ blocks = [p \in Profiles |-> <<>>]
  /\ bufferLine = [p \in Profiles |-> 0]

InlineIdle ==
  /\ text = <<>>
  /\ depth = 0
  /\ inlineResult = Leaf(<<>>, 0)

Init ==
  /\ input = Undefined \/ input \in Documents
  /\ pc = [p \in Profiles |-> "idle"]
  /\ BlockIdle
  /\ inlinePc = "unused"
  /\ InlineIdle

Next == \E p \in Profiles : Call(p) \/ Line(p) \/ Return(p)

Spec == Init /\ [][Next]_vars

\* ------------------------------------------------- the inline renderer alone
\* one invocation of renderInlineMarkdown(text, depth), from its entry to
\* its return
Render ==
  /\ inlinePc = "idle"
  /\ inlineResult' = RenderInline(text, depth)
  /\ inlinePc' = "done"
  /\ UNCHANGED <<text, depth>>
  /\ UNCHANGED blockVars

InitInline ==
  /\ \/ text \in InlineTexts /\ depth = 0
     \/ text \in WrappedTexts /\ depth = 0
     \/ text \in DeepTexts /\ depth \in Depths
  /\ inlinePc = "idle"
  /\ inlineResult = Leaf(<<>>, 0)
  /\ input = Undefined
  /\ pc = [p \in Profiles |-> "unused"]
  /\ BlockIdle

NextInline == Render

SpecInline == InitInline /\ [][NextInline]_vars

\* ---------------------------------------- the inline renderer on link syntax
MaxTargetTokens == 2

\* texts [label](target): the label is plain, the target is a scheme or a
\* path prefix followed by pieces of text
LinkLabels == { <<"a">>, <<"a", "&", "<">>, <<"b", " ", "c">> }

LinkPrefixes ==
  { <<"h", "t", "t", "p", "s", ":", "/", "/">>,
    <<"h", "t", "t", "p", ":", "/", "/">>,
    <<"f", "t", "p", ":", "/", "/">>,
    <<"j", "a", "v", "a", "s", "c", "r", "i", "p", "t", ":">>,
    <<"/">>,
    <<"H", "T", "T", "P", "S", ":", "/", "/">> }

TargetTokens ==
  { <<"x">>, <<"&">>, <<"\"">>, <<"'">>, <<"$", "&">>, <<"_", "e", "_">> }

LinkTargets ==
  {pre \o rest : pre \in LinkPrefixes,
                 rest \in TokenStrings(TargetTokens, MaxTargetTokens)}

LinkText(label, target) == <<"[">> \o label \o <<"]", "(">> \o target \o <<")">>

LinkTexts == {LinkText(label, target) : label \in LinkLabels, target \in LinkTargets}

InitLinks ==
  /\ text \in LinkTexts
  /\ depth = 0
  /\ inlinePc = "idle"
  /\ inlineResult = Leaf(<<>>, 0)
  /\ input = Undefined
  /\ pc = [p \in Profiles |-> "unused"]
  /\ BlockIdle

SpecLinks == InitLinks /\ [][NextInline]_vars

\* ------------------------------------ the inline renderer on style markers
\* texts of single and double markers of both kinds, paired or not
MarkerTokens ==
  { <<"a">>, <<" ">>, <<"*">>, <<"*", "*">>, <<"_">>, <<"_", "_">>,
    <<"<", "&">> }

MarkerTexts == TokenStrings(MarkerTokens, MaxInlineTokens)

InitMarkers ==
  /\ text \in MarkerTexts
  /\ depth = 0
  /\ inlinePc = "idle"
  /\ inlineResult = Leaf(<<>>, 0)
  /\ input = Undefined
  /\ pc = [p \in Profiles |-> "unused"]
  /\ BlockIdle

SpecMarkers == InitMarkers /\ [][NextInline]_vars

\* ------------------------------------ the converters on documents of dashes
\* lines that start with a hyphen, an en dash or an em dash, with and without
\* text, among list items, text and blank lines; the last two hold a line
\* terminator that split() leaves in the line
DashLines ==
  { <<>>,
    <<"-", " ", "a">>,
    <<"1", ".", " ", "d">>,
    <<"p">>,
    <<"-", "t">>,
    <<"-">>,
    <<"-", "-", " ", "x">>,
    <<EnDash>>,
    <<EnDash, "w">>,
    <<EmDash, " ", "u", " ", "v">>,
    <<EmDash, "a", LineSeparator, "b">>,
    <<"-", " ", "c", ParagraphSeparator, "d">> }

DashDocuments ==
  {Join(ls, <<"\n">>) : ls \in UNION {[1..k -> DashLines] : k \in 1..MaxLines}}

InitDashes ==
  /\ input \in DashDocuments
  /\ pc = [p \in Profiles |-> "idle"]
  /\ BlockIdle
  /\ inlinePc = "unused"
  /\ InlineIdle

SpecDashes == InitDashes /\ [][Next]_vars

\* ------------------------------ the converters on documents of ordered items
\* ordered items with contiguous, non-contiguous and repeated ordinals, and
\* one with an ordinal above 2^53 that is no double
OrdinalLines ==
  { <<>>,
    <<"1", ".", " ", "d">>,
    <<"5", ".", " ", "g">>,
    <<"6", ".", " ", "e">>,
    <<"7", ".", " ", "h">>,
    <<"9", "0", "0", "7", "1", "9", "9", "2", "5", "4", "7", "4", "0", "9", "9", "3",
      ".", " ", "x">>,
    <<"-", " ", "a">> }

OrdinalDocuments ==
  {Join(ls, <<"\n">>) :
     ls \in UNION {[1..k -> OrdinalLines] : k \in 1..MaxLines}}

InitOrdinals ==
  /\ input \in OrdinalDocuments
  /\ pc = [p \in Profiles |-> "idle"]
  /\ BlockIdle
  /\ inlinePc = "unused"
  /\ InlineIdle

SpecOrdinals == InitOrdinals /\ [][Next]_vars

\* ------------------------------- the converters on documents of paragraphs
\* text lines with white space and markers in them, a dash line, an item and
\* a blank line
ParagraphLines ==
  { <<>>,
    <<"p">>,
    <<" ", "q", " ", "\t", "r", " ">>,
    <<"*", "*", "b">>,
    <<">", "a", LineSeparator, "b">>,
    <<"-", "t">>,
    <<"-", " ", "a">> }

\* one line more than MaxLines: an item, a dash line, a blank line and a text
\* line fit into one document
ParagraphDocuments ==
  {Join(ls, <<"\n">>) :
     ls \in UNION {[1..k -> ParagraphLines] : k \in 1..(MaxLines + 1)}}

InitParagraphs ==
  /\ input \in ParagraphDocuments
  /\ pc = [p \in Profiles |-> "idle"]
  /\ BlockIdle
  /\ inlinePc = "unused"
  /\ InlineIdle

SpecParagraphs == InitParagraphs /\ [][Next]_vars

\* ------------------------------------- the converters on one-line plain texts
InitPlain ==
  /\ input \in PlainTexts
  /\ pc = [p \in Profiles |-> "idle"]
  /\ BlockIdle
  /\ inlinePc = "unused"
  /\ InlineIdle

SpecPlain == InitPlain /\ [][Next]_vars

\* ---------------------------------------- the converters on documents of lists
\* list items of both types, with ordinals that start at 0, at 1 and beyond and
\* that break the sequence, an item ending with a colon, and the lines that
\* close or do not close a list
ListLines ==
  { <<>>,
    <<"-", " ", "a">>,
    <<"-", " ", "b", ":">>,
    <<"*", " ", "c">>,
    <<"1", ".", " ", "d">>,
    <<"2", ")", " ", "e">>,
    <<"0", ".", " ", "f">>,
    <<"5", ".", " ", "g">>,
    <<"p">>,
    <<">">>,
    <<"#">>,
    <<"-", "t">> }

ListDocuments ==
  {Join(ls, <<"\n">>) : ls \in UNION {[1..k -> ListLines] : k \in 1..MaxLines}}

InitLists ==
  /\ input \in ListDocuments
  /\ pc = [p \in Profiles |-> "idle"]
  /\ BlockIdle
  /\ inlinePc = "unused"
  /\ InlineIdle

SpecLists == InitLists /\ [][Next]_vars

\* ---------------------------------- the converters and the inline renderer
InitAll == Init \/ InitInline

NextAll == Next \/ NextInline

SpecAll == InitAll /\ [][NextAll]_vars

\* =================================================================== claims
\* s holds the literal lit somewhere
Contains(s, lit) == \E i \in 1..Len(s) : StartsWithAt(s, i, lit)

\* the number of positions of s at which the literal lit starts
Occurrences(s, lit) == Cardinality({i \in 1..Len(s) : StartsWithAt(s, i, lit)})

\* the characters that have a meaning in HTML
Specials == {"<", ">", "\"", "'", "&"}

\* the pieces of markup the renderer writes whole
FixedMarkup ==
  { EntAmp, EntLt, EntGt, EntQuot, EntApos, CodeOpen, CodeClose, AnchorOpen,
    AnchorAttrs, AnchorClose,
    <<"<">> \o TagStrong \o <<">">>, <<"<", "/">> \o TagStrong \o <<">">>,
    <<"<">> \o TagEm \o <<">">>, <<"<", "/">> \o TagEm \o <<">">>,
    DivParagraphOpen, DivClose, DivDivider, DivBlockquoteOpen,
    DivClassOpen \o ClassListOrdered \o <<"\"", ">">>,
    DivClassOpen \o ClassListUnordered \o <<"\"", ">">>,
    POpen, PBreak, PClose, Hr, BlockquoteOpen, BlockquoteClose,
    <<"<">> \o TagOl \o <<">">>, <<"<">> \o TagUl \o <<">">>,
    <<"<", "/">> \o TagOl \o <<">">>, <<"<", "/">> \o TagUl \o <<">">>,
    <<"<">> \o TagOl \o StyleOrdered \o <<">">>,
    <<"<">> \o TagUl \o StyleUnordered \o <<">">>,
    LiOpen \o <<">">>, LiClose, NestedOpen }

\* the pieces of markup the renderer writes around a number: <<before, after>>
NumberedMarkup ==
  { <<HOpen, <<">">> >>, <<HCloseOpen, <<">">> >>,
    <<DivHeadingOpen, <<"\"", ">">> >>,
    <<LiOpen \o ValueAttrOpen, <<"\"", ">">> >>,
    <<(<<"<">> \o TagOl \o StartAttrOpen), (<<"\"">> \o StyleOrdered \o <<">">>)>>,
    <<(<<"<">> \o TagOl \o StartAttrOpen), <<"\"", ">">> >> }

\* the index after a piece of numbered markup f that starts at position j of
\* out and whose digits end before position d; 0 when there is none
NumberedEnd(out, j, f, d) ==
  IF /\ StartsWithAt(out, j, f[1])
     /\ d > j + Len(f[1])
     /\ StartsWithAt(out, d, f[2])
  THEN d + Len(f[2]) ELSE 0

\* the pieces of renderer markup by their first character
FixedMarkupFrom == [c \in Specials |-> {m \in FixedMarkup : m[1] = c}]
NumberedMarkupFrom == [c \in Specials |-> {f \in NumberedMarkup : f[1][1] = c}]

\* the index after the longest piece of renderer markup that starts at
\* position j of out; 0 when none starts there
MarkupEnd(out, j) ==
  Max({0}
      \cup {j + Len(l) : l \in {m \in FixedMarkupFrom[out[j]] : StartsWithAt(out, j, m)}}
      \cup {NumberedEnd(out, j, f,
              SkipWhile(out, {DigitChars[i] : i \in 1..10}, j + Len(f[1]))) :
              f \in NumberedMarkupFrom[out[j]]})

\* from position i on, every special character of out belongs to a piece of
\* markup written by the renderer
RECURSIVE OnlyMarkupFrom(_, _)
AfterMarkup(out, j, e) == j = 0 \/ (e > j /\ OnlyMarkupFrom(out, e))
MarkupAt(out, j) == AfterMarkup(out, j, IF j = 0 THEN 0 ELSE MarkupEnd(out, j))
OnlyMarkupFrom(out, i) == MarkupAt(out, IndexOfFrom(out, Specials, i))

OnlyMarkup(out) == OnlyMarkupFrom(out, 1)

\* a converter call that returned a string
Returned(p) == pc[p] = "done" /\ ~threw[p] /\ result[p] # Undefined

\* C1: injection safety. Whatever the input, the strings returned by
\* markdownToHtml, markdownToDivHtml and renderInlineMarkdown hold the
\* characters < > " ' & only inside the tags, attribute delimiters and
\* entities the renderer writes itself; a special character of the input
\* never appears raw. (A returned string never changes, so it is examined in
\* the states in which no call is in progress.)
C1_InjectionSafety ==
  /\ \A p \in Profiles :
       (Returned(p) /\ \A q \in Profiles : pc[q] # "loop")
         => OnlyMarkup(result[p])
  /\ inlinePc = "done" => OnlyMarkup(inlineResult.out)

\* a link whose label and target hold special characters has been rendered
C1_Witness ==
  /\ inlinePc = "done"
  /\ depth = 0
  /\ Contains(text, <<"[", "<", ">", "\"", "'", "]">>)
  /\ Contains(inlineResult.out, AnchorOpen)
  /\ Contains(inlineResult.out, EntLt \o EntGt \o EntQuot \o EntApos)

\* a token @@MD<n>@@ or @@MDPH<n>@@ starts at position i of out
TokenAt(out, i, prefix) ==
  /\ StartsWithAt(out, i, prefix)
  /\ SkipWhile(out, {DigitChars[d] : d \in 1..10}, i + Len(prefix)) > i + Len(prefix)
  /\ StartsWithAt(out,
       SkipWhile(out, {DigitChars[d] : d \in 1..10}, i + Len(prefix)), TokenSuffix)

HasPlaceholderToken(out) ==
  \E i \in 1..Len(out) :
    TokenAt(out, i, PlaceholderPrefix) \/ TokenAt(out, i, KeyPrefix)

\* C2: no literal placeholder token survives. For a text that does not itself
\* hold @@MD, the result of renderInlineMarkdown(text, 0) holds no token
\* @@MD<n>@@ or @@MDPH<n>@@. The code breaks this: a style marker around a
\* link or a code span is handed the fragment's placeholder, the nested call
\* cannot resolve it, and **[a](https://x)** gives <strong>@@MD0@@</strong>.
C2_NoPlaceholderSurvives ==
  (inlinePc = "done" /\ depth = 0 /\ ~Contains(text, PlaceholderPrefix))
    => ~HasPlaceholderToken(inlineResult.out)

Entities == {EntAmp, EntLt, EntGt, EntQuot, EntApos}

\* out holds every & of the text in as exactly one &amp;: as many &amp; as in
\* has &, no & outside an entity and no &amp; escaped again
AmpersandsEscapedOnce(in, out) ==
  /\ Occurrences(out, EntAmp) = Occurrences(in, <<"&">>)
  /\ \A i \in 1..Len(out) :
       out[i] = "&" => \E e \in Entities : StartsWithAt(out, i, e)
  /\ ~Contains(out, <<"&">> \o EntAmp)
  /\ ~Contains(out, <<"&", "a", "m", "p", ";", "a", "m", "p", ";">>)

\* C3: every leaf text passes through the escaper exactly once. Each & of the
\* input is in the output as exactly &amp;, never raw, never dropped and
\* never escaped twice, for renderInlineMarkdown and for both converters.
\* The code breaks this: the stored HTML is used as the replacement text of
\* String.replace, so the $& that follows from a code span `$&` is taken for
\* the matched key and the result is <code>@@MDPH0@@amp;</code>.
C3_EscapedExactlyOnce ==
  /\ inlinePc = "done" => AmpersandsEscapedOnce(text, inlineResult.out)
  /\ \A p \in Profiles : Returned(p) => AmpersandsEscapedOnce(input, result[p])

\* C4: markdownToHtml and markdownToDivHtml return undefined if and only if
\* the input is absent, empty or holds white space only; for every other
\* input they return a string, which may be the empty string.
C4_NoValueIffBlank ==
  \A p \in Profiles :
    (pc[p] = "done" /\ ~threw[p]) =>
      /\ result[p] # NotReturned
      /\ result[p] = Undefined
           <=> (input = Undefined
                  \/ \A i \in 1..Len(input) : input[i] \in WhiteSpace)

\* a lone dash is no blank input and renders no block: the empty string
C4_Witness ==
  /\ input = <<"-">>
  /\ \A p \in Profiles : pc[p] = "done" /\ result[p] = <<>>

\* the markdown control characters
ControlChars == {"#", ">", "*", "_", Backtick, "[", "]"}

\* the trimmed line t opens with a list marker, a number marker or a dash
LeadingMarker(t) ==
  \/ t[1] \in DashLike
  \/ t[1] \in {"+", "*"} /\ Len(t) >= 2 /\ t[2] \in WhiteSpace
  \/ /\ LeadingRun(t, {DigitChars[d] : d \in 1..10}) >= 1
     /\ LeadingRun(t, {DigitChars[d] : d \in 1..10}) < Len(t)
     /\ t[LeadingRun(t, {DigitChars[d] : d \in 1..10}) + 1] \in {".", ")"}

\* s is one line of text, not blank, without markdown control characters and
\* without a leading list marker, number or dash
PlainLine(s) ==
  /\ s # Undefined
  /\ \A i \in 1..Len(s) : s[i] \notin ControlChars \cup LineTerminators
  /\ trim(s) # <<>>
  /\ ~LeadingMarker(trim(s))

\* C5 as stated: for a plain line s, markdownToHtml(s) is one <p> holding
\* escapeHtml(trimmed s) and markdownToDivHtml(s) is one <div class="paragraph">
\* holding escapeHtml of s with its runs of white space collapsed. The second
\* half fails for a line that starts or ends with white space: the code trims
\* it as well.
C5_AsStated ==
  PlainLine(input) =>
    /\ Returned("Semantic") =>
         result["Semantic"] = POpen \o escapeHtml(trim(input)) \o PClose
    /\ Returned("DivWrapped") =>
         result["DivWrapped"] =
           DivParagraphOpen \o escapeHtml(CollapseWhiteSpace(input)) \o DivClose

\* C5, amended: for a plain line s, markdownToHtml(s) is one <p> holding
\* escapeHtml(trimmed s), and markdownToDivHtml(s) is one
\* <div class="paragraph"> holding escapeHtml of the trimmed s with its runs
\* of white space collapsed to one space.
C5_PlainParagraph ==
  PlainLine(input) =>
    /\ Returned("Semantic") =>
         result["Semantic"] = POpen \o escapeHtml(trim(input)) \o PClose
    /\ Returned("DivWrapped") =>
         result["DivWrapped"] =
           DivParagraphOpen \o escapeHtml(CollapseWhiteSpace(trim(input)))
             \o DivClose

\* both converters have rendered a plain line that starts with a run of white
\* space, ends with white space and holds an ampersand
C5_Witness ==
  /\ PlainLine(input)
  /\ StartsWithAt(input, 1, <<" ", "\t", "&">>)
  /\ input[Len(input)] \in WhiteSpace
  /\ \A p \in Profiles : Returned(p) /\ Contains(result[p], EntAmp)

\* C6: the engine is total. No call of markdownToHtml or markdownToDivHtml
\* ends in an exception (the only statement of the code that can raise one
\* is listContext.items.push on a null listContext), a call inside its loop
\* is at a line of the input or at the final flush, a finished call has
\* returned a value, and an invocation of renderInlineMarkdown returns a
\* string, whatever the text holds (unmatched markers, unterminated code
\* spans, nested emphasis, HTML-like text).
C6_Total ==
  /\ \A p \in Profiles :
       /\ ~threw[p]
       /\ pc[p] = "loop" => lineNo[p] \in 1..(Len(InputLines) + 1)
       /\ pc[p] = "done" => result[p] # NotReturned
  /\ inlinePc = "done" => inlineResult.out # Undefined

\* a text with an unmatched bold marker, an unterminated code span and
\* HTML-like characters has been rendered
C6_Witness ==
  /\ inlinePc = "done"
  /\ StartsWithAt(text, 1, <<"*", "*", Backtick, "<", ">">>)
  /\ StartsWithAt(inlineResult.out, 1, <<"*", "*", Backtick>> \o EntLt \o EntGt)

\* C7: termination and bounded recursion. An invocation of
\* renderInlineMarkdown with a depth argument of at most 10 (so, step by
\* step, every invocation below a call started at depth 0) returns, and no
\* invocation below it, direct or indirect, has a depth argument greater
\* than 10. Every nested invocation has a depth one greater than its
\* caller's, so the call tree is at most eleven levels deep.
C7_BoundedRecursion ==
  /\ inlinePc = "idle" => RenderInline(text, depth).maxDepth >= depth
  /\ (inlinePc = "done" /\ depth <= MAX_DEPTH) =>
       inlineResult.maxDepth <= MAX_DEPTH

\* a call started at depth 0 has made an invocation at depth 1 that made
\* one at depth 2
C7_Witness ==
  /\ inlinePc = "done"
  /\ depth = 0
  /\ inlineResult.maxDepth = 2
  /\ Contains(inlineResult.out, <<"<">> \o TagEm \o <<">">>)

\* the text of a one-line input that is n >= 1 characters # followed by white
\* space and a text without #
HeadingText(s, n) == RestFrom(s, SkipWhile(s, WhiteSpace, n + 1))

MarkersThenText(s) ==
  /\ s # Undefined
  /\ \A i \in 1..Len(s) : s[i] \notin LineTerminators
  /\ LeadingRun(s, {"#"}) >= 1
  /\ LeadingRun(s, {"#"}) < Len(s)
  /\ s[LeadingRun(s, {"#"}) + 1] \in WhiteSpace
  /\ trim(HeadingText(s, LeadingRun(s, {"#"}))) # <<>>
  /\ ~Contains(HeadingText(s, LeadingRun(s, {"#"})), <<"#">>)

\* C8: heading clamp. In both converters a line of n characters # followed
\* by text is a heading of level min(n, 6) whose text is the text after the
\* markers, with no # left in it. The code breaks this for n >= 7:
\* markdownToHtml("####### T") is <h6># T</h6> and markdownToDivHtml gives a
\* paragraph.
C8_HeadingClamp ==
  \A p \in Profiles :
    (Returned(p) /\ MarkersThenText(input)) =>
      result[p] =
        headingHtml(p, Min({LeadingRun(input, {"#"}), 6}),
                    HeadingText(input, LeadingRun(input, {"#"})))

\* what the claim counts as a block: its kind, heading level, list type,
\* texts (paragraph lines, item texts, heading or blockquote text) and ordinals
Segmentation(bs) ==
  [i \in DOMAIN bs |->
     [kind |-> bs[i].kind, level |-> bs[i].level, listType |-> bs[i].listType,
      texts |-> bs[i].texts, ordinals |-> bs[i].ordinals]]

\* C9: the render profile does not change block segmentation. Once both
\* converters have returned on the same input, the sequence of blocks
\* recognised by markdownToHtml equals the one recognised by
\* markdownToDivHtml. The code breaks this: the two heading expressions
\* differ, so #Title is a heading for markdownToHtml and a paragraph for
\* markdownToDivHtml.
C9_SameSegmentation ==
  (Returned("Semantic") /\ Returned("DivWrapped")) =>
    Segmentation(blocks["Semantic"]) = Segmentation(blocks["DivWrapped"])

\* C10: block order equals source line order. In the output of either
\* converter the blocks stand in the order of their first source lines. The
\* code breaks this: a line -text read while a list is open starts a
\* paragraph without closing the list, and the final flush emits the
\* paragraph before the list, so "- a\n-b" gives <p>b</p><ul>...a...</ul>.
C10_BlockOrder ==
  \A p \in Profiles :
    Returned(p) =>
      \A i, j \in DOMAIN blocks[p] :
        i < j => blocks[p][i].line < blocks[p][j].line

\* the trimmed line is one of - * + followed by white space and a text, a
\* text being what the dot of a regular expression matches
UnorderedLine(line) ==
  LET t == trim(line)
  IN Len(t) >= 3 /\ t[1] \in {"-", "*", "+"} /\ t[2] \in WhiteSpace /\ DotStar(t)

\* the text of the line ends with a colon
ColonLine(line) == trim(line) # <<>> /\ trim(line)[Len(trim(line))] = ":"

\* the lines a run of unordered items is made of
RunLine(line) == UnorderedLine(line) \/ trim(line) = <<>>

\* line j continues a run of unordered items: an unordered item comes before
\* it with nothing but blank lines in between
ContinuesRun(ls, j) ==
  /\ UnorderedLine(ls[j])
  /\ \E i \in 1..(j - 1) :
       /\ UnorderedLine(ls[i])
       /\ \A k \in (i + 1)..(j - 1) : trim(ls[k]) = <<>>

\* the whole input is one run of unordered items
OneRun(ls) ==
  /\ \A k \in DOMAIN ls : RunLine(ls[k])
  /\ \E k \in DOMAIN ls : UnorderedLine(ls[k])

UnorderedCount(ls) == Cardinality({k \in DOMAIN ls : UnorderedLine(ls[k])})

UlStart == <<"<">> \o TagUl
LiStart == LiOpen

\* C11: list grouping. In both converters a blank line read while a list is
\* open leaves the list open and emits nothing; no block starts at a line
\* that continues a run of unordered items; and an input that is one such run
\* gives exactly one segment, an unordered list holding every item of the
\* run, with one <ul. In markdownToHtml, when no item ends with a colon, that
\* list has exactly one <li per item and the output holds no <p>.
C11_ListGrouping ==
  \A p \in Profiles :
    /\ (pc[p] = "loop" /\ listContext[p] # NoList) =>
         /\ ProcessLine(p, Locals(p), <<>>, lineNo[p]).listContext.type
              = listContext[p].type
         /\ ProcessLine(p, Locals(p), <<>>, lineNo[p]).segments = segments[p]
    /\ Returned(p) =>
         /\ \A j \in DOMAIN InputLines :
              ContinuesRun(InputLines, j) =>
                \A b \in DOMAIN blocks[p] : blocks[p][b].line # j
         /\ OneRun(InputLines) =>
              /\ Len(segments[p]) = 1
              /\ Len(blocks[p]) = 1
              /\ blocks[p][1].kind = "list"
              /\ blocks[p][1].listType = "unordered"
              /\ Len(blocks[p][1].texts) = UnorderedCount(InputLines)
              /\ (p = "DivWrapped"
                    \/ \A k \in DOMAIN InputLines : ~ColonLine(InputLines[k])) =>
                   Occurrences(result[p], UlStart) = 1
              /\ (p = "Semantic"
                    /\ \A k \in DOMAIN InputLines : ~ColonLine(InputLines[k])) =>
                   /\ Occurrences(result[p], LiStart) = UnorderedCount(InputLines)
                   /\ ~Contains(result[p], POpen)

\* both converters have returned one list of two items for two unordered
\* items with a blank line between them
C11_Witness ==
  /\ Len(InputLines) = 3
  /\ UnorderedLine(InputLines[1])
  /\ trim(InputLines[2]) = <<>>
  /\ UnorderedLine(InputLines[3])
  /\ \A p \in Profiles :
       /\ Returned(p)
       /\ Len(segments[p]) = 1
       /\ Occurrences(result[p], LiStart) = 2

\* the opening of an ordered list whose first item has the ordinal first, as
\* the claim has it: a start attribute when first differs from 1
OrderedOpening(p, first) ==
  (IF p = "Semantic" THEN <<"<">>
   ELSE DivClassOpen \o ClassListOrdered \o <<"\"", ">", "<">>)
  \o TagOl
  \o (IF first # <<"1">> THEN StartAttrOpen \o first \o <<"\"">> ELSE <<>>)
  \o (IF p = "Semantic" THEN StyleOrdered ELSE <<>>)
  \o <<">">>

\* C12: ordered list start attribute. In both converters an ordered list
\* opens with start="n", n being the ordinal of its first item, when n
\* differs from 1 (0 included), and without a start attribute when n is 1.
\* The code breaks this for a first ordinal of 0: item.ordinal is tested for
\* truthiness, so "0. f" opens a list without start.
C12_StartAttribute ==
  \A p \in Profiles :
    Returned(p) =>
      \A i \in DOMAIN blocks[p] :
        (blocks[p][i].kind = "list" /\ blocks[p][i].listType = "ordered") =>
          StartsWithAt(segments[p][i], 1,
                       OrderedOpening(p, blocks[p][i].ordinals[1]))

\* the items of an ordered list as the claim has them: the item at the
\* 0-based position i carries value="ordinal" when its ordinal differs from
\* the first ordinal plus i
ValuedItems(texts, ordinals) ==
  Flatten([k \in DOMAIN texts |->
             LiOpen
             \o (IF ordinals[k] # NumberPlus(ordinals[1], k - 1)
                 THEN ValueAttrOpen \o ordinals[k] \o <<"\"">>
                 ELSE <<>>)
             \o <<">">> \o renderInlineMarkdown(texts[k], 0) \o LiClose])

\* C13: ordered list value attribute. In both converters the items of an
\* ordered list are written with a value attribute exactly at the breaks of
\* the sequence that starts at the first item's ordinal. The code breaks this
\* for the ordinal 0: item.ordinal is tested for truthiness, so the second
\* item of "1. d\n0. f" carries no value, and after a first ordinal of 0 the
\* sequence is counted from 1.
C13_ValueAttribute ==
  \A p \in Profiles :
    Returned(p) =>
      \A i \in DOMAIN blocks[p] :
        (blocks[p][i].kind = "list" /\ blocks[p][i].listType = "ordered") =>
          Contains(segments[p][i],
                   <<">">> \o ValuedItems(blocks[p][i].texts, blocks[p][i].ordinals)
                     \o <<"<", "/">> \o TagOl \o <<">">>)

\* the item text ends with a colon
EndsColon(t) == t # <<>> /\ t[Len(t)] = ":"

\* the item at position k is a top-level item: the first one is, and a later
\* one is unless the item before it is a top-level item ending with a colon
RECURSIVE TopLevel(_, _)
TopLevel(texts, k) ==
  IF k = 1 THEN TRUE
  ELSE ~(TopLevel(texts, k - 1) /\ EndsColon(texts[k - 1]))

\* the items of an unordered list as the claim has them
NestedItems(texts) ==
  Flatten([k \in DOMAIN texts |->
             IF ~TopLevel(texts, k) THEN <<>>
             ELSE IF EndsColon(texts[k]) /\ k < Len(texts)
             THEN LiOpen \o <<">">>
                  \o renderInlineMarkdown(SubSeq(texts[k], 1, Len(texts[k]) - 1), 0)
                  \o NestedOpen \o renderInlineMarkdown(texts[k + 1], 0)
                  \o NestedClose \o LiClose
             ELSE LiOpen \o <<">">> \o renderInlineMarkdown(texts[k], 0)
                  \o LiClose])

\* C14: colon nesting. In markdownToHtml an unordered list is written with
\* every top-level item that ends with a colon and has a following item as
\* <li>text without the colon<ul ...><li>following item</li></ul></li>, the
\* following item appearing nowhere else, and every other top-level item as
\* <li>text</li>.
C14_ColonNesting ==
  Returned("Semantic") =>
    \A i \in DOMAIN blocks["Semantic"] :
      (blocks["Semantic"][i].kind = "list"
         /\ blocks["Semantic"][i].listType = "unordered") =>
        segments["Semantic"][i] =
          <<"<">> \o TagUl \o StyleUnordered \o <<">">>
          \o NestedItems(blocks["Semantic"][i].texts)
          \o <<"<", "/">> \o TagUl \o <<">">>

\* markdownToHtml has nested the second of three items under the first, which
\* ends with a colon, and written the third as a top-level item
C14_Witness ==
  /\ Returned("Semantic")
  /\ Len(InputLines) = 3
  /\ ColonLine(InputLines[1])
  /\ \A k \in 1..3 : UnorderedLine(InputLines[k])
  /\ ~ColonLine(InputLines[2])
  /\ Occurrences(result["Semantic"], NestedOpen) = 1
  /\ Contains(result["Semantic"],
              <<"b">> \o NestedOpen \o <<"a">> \o NestedClose \o LiClose
                \o LiOpen \o <<">">>)

\* the opening and the closing of a list of markdownToDivHtml, apart from a
\* start attribute
DivListOpening(type) ==
  DivClassOpen
  \o (IF type = "ordered" THEN ClassListOrdered ELSE ClassListUnordered)
  \o <<"\"", ">", "<">> \o (IF type = "ordered" THEN TagOl ELSE TagUl)

DivListClosing(type) ==
  <<"<", "/">> \o (IF type = "ordered" THEN TagOl ELSE TagUl) \o <<">">>
  \o DivClose

EndsWith(s, lit) ==
  Len(s) >= Len(lit) /\ StartsWithAt(s, Len(s) - Len(lit) + 1, lit)

\* C15: the lists of markdownToDivHtml are flat. Every list segment it emits
\* is <div class="list list-ordered|list-unordered"><ol|ul ...>...</ol|ul>
\* </div>, holds exactly one <li per non-empty item of the list, whether or
\* not an item ends with a colon, and holds no list inside: one <ol or <ul
\* and one closing tag.
C15_DivListsFlat ==
  Returned("DivWrapped") =>
    \A i \in DOMAIN blocks["DivWrapped"] :
      blocks["DivWrapped"][i].kind = "list" =>
        /\ StartsWithAt(segments["DivWrapped"][i], 1,
                        DivListOpening(blocks["DivWrapped"][i].listType))
        /\ EndsWith(segments["DivWrapped"][i],
                    DivListClosing(blocks["DivWrapped"][i].listType))
        /\ Occurrences(segments["DivWrapped"][i], LiOpen)
             = Len(blocks["DivWrapped"][i].texts)
        /\ Occurrences(segments["DivWrapped"][i], LiClose)
             = Len(blocks["DivWrapped"][i].texts)
        /\ Occurrences(segments["DivWrapped"][i], <<"<">> \o TagUl)
             + Occurrences(segments["DivWrapped"][i], <<"<">> \o TagOl) = 1
        /\ Occurrences(segments["DivWrapped"][i], <<"<", "/">> \o TagUl)
             + Occurrences(segments["DivWrapped"][i], <<"<", "/">> \o TagOl) = 1

\* markdownToDivHtml has written a list of three items, the first ending
\* with a colon, as three flat <li>
C15_Witness ==
  /\ Returned("DivWrapped")
  /\ Len(InputLines) = 3
  /\ ColonLine(InputLines[1])
  /\ \A k \in 1..3 : UnorderedLine(InputLines[k])
  /\ Len(segments["DivWrapped"]) = 1
  /\ Contains(result["DivWrapped"], <<":">> \o LiClose \o LiOpen \o <<">">>)
  /\ Occurrences(result["DivWrapped"], LiOpen) = 3

\* the block elements of the two converters with nothing inside; the divider
\* is not among them
EmptyBlocks ==
  {HOpen \o NatToStr(n) \o <<">">> \o HCloseOpen \o NatToStr(n) \o <<">">> :
     n \in 1..6}
  \cup {DivHeadingOpen \o NatToStr(n) \o <<"\"", ">">> \o DivClose : n \in 1..6}
  \cup { BlockquoteOpen \o BlockquoteClose, DivBlockquoteOpen \o DivClose,
         POpen \o PClose, DivParagraphOpen \o DivClose,
         LiOpen \o <<">">> \o LiClose, <<"\"", ">">> \o LiClose,
         <<"<">> \o TagUl \o <<">", "<", "/">> \o TagUl \o <<">">>,
         <<"<">> \o TagOl \o <<">", "<", "/">> \o TagOl \o <<">">>,
         <<"\"", ">", "<", "/">> \o TagUl \o <<">">>,
         <<"\"", ">", "<", "/">> \o TagOl \o <<">">> }

\* C16: empty blocks are dropped. The output of either converter holds no
\* heading, blockquote, paragraph, list item or list with nothing inside.
\* The code breaks this: markdownToHtml("#") is <h1></h1>, and a line ">"
\* gives <blockquote></blockquote> and <div class="blockquote"></div>; the
\* heading and blockquote branches push their segment without looking at
\* the text.
C16_NoEmptyBlocks ==
  \A p \in Profiles :
    Returned(p) => \A e \in EmptyBlocks : ~Contains(result[p], e)

\* the target of the text [label](target), the label holding no ]
TargetOf(t) ==
  SubSeq(t, IndexOfFrom(t, {"]"}, 1) + 2, Len(t) - 1)

\* the target begins with http:// or https://
HttpTarget(target) ==
  \/ StartsWithAt(target, 1, SchemeHttp \o SchemeSep)
  \/ StartsWithAt(target, 1, SchemeHttp \o <<"s">> \o SchemeSep)

\* C17: link recognition policy. For a text [label](target),
\* renderInlineMarkdown writes an anchor only when the target begins with
\* http:// or https://, and the anchor then opens with
\* <a href="escapeHtmlAttribute(target)" target="_blank"
\* rel="noopener noreferrer">; for any other target the output holds no <a
\* and is the escaped text itself. The code breaks both halves: the href of
\* [a](https://$&) holds a placeholder key (the replacement patterns of C3),
\* and the target of [a](/_e_) is rendered as emphasis.
C17_LinkPolicy ==
  inlinePc = "done" =>
    /\ Contains(inlineResult.out, <<"<", "a">>) =>
         /\ HttpTarget(TargetOf(text))
         /\ StartsWithAt(inlineResult.out, 1,
                         AnchorOpen \o escapeHtmlAttribute(TargetOf(text))
                           \o AnchorAttrs)
         /\ EndsWith(inlineResult.out, AnchorClose)
    /\ ~HttpTarget(TargetOf(text)) =>
         /\ ~Contains(inlineResult.out, <<"<", "a">>)
         /\ inlineResult.out = escapeHtml(text)

\* C19: the segmenter states are mutually exclusive. After any prefix of the
\* lines, in both converters, the paragraph buffer is not non-empty while a
\* list is open. The code breaks this: a line -text read while a list is
\* open is pushed on the paragraph buffer without closing the list, so after
\* the second line of "- a\n-t" the buffer holds t and the list holds a.
C19_ExclusiveStates ==
  \A p \in Profiles :
    pc[p] = "loop" => ~(paragraphBuffer[p] # <<>> /\ listContext[p] # NoList)

\* C20: a blank line flushes the paragraph buffer. In both converters the
\* paragraph buffer is empty right after a blank line has been processed,
\* whatever the list state. The code breaks this: with a list open the blank
\* line branch does not call flushParagraph, so the buffer filled by a line
\* -text under an open list survives the blank line, and "- a\n-t\n\nc" puts
\* t and c in one paragraph.
C20_BlankLineFlushes ==
  \A p \in Profiles :
    (/\ pc[p] = "loop"
     /\ lineNo[p] > 1
     /\ trim(InputLines[lineNo[p] - 1]) = <<>>) => paragraphBuffer[p] = <<>>

\* t is open, a non-empty inner text without the characters of stop, close
MarkedBy(t, open, close, stop) ==
  /\ Len(t) > Len(open) + Len(close)
  /\ StartsWithAt(t, 1, open)
  /\ EndsWith(t, close)
  /\ \A i \in (Len(open) + 1)..(Len(t) - Len(close)) : t[i] \notin stop

InnerText(t, open, close) == SubSeq(t, Len(open) + 1, Len(t) - Len(close))

\* the marker pairs and the link syntax of the claim: opening, closing, the
\* characters that end the inner text, and the tag written around it
OuterConstructs ==
  { [open |-> <<"*", "*">>, close |-> <<"*", "*">>, stop |-> {"*"},
     before |-> <<"<">> \o TagStrong \o <<">">>,
     after |-> <<"<", "/">> \o TagStrong \o <<">">>],
    [open |-> <<"_", "_">>, close |-> <<"_", "_">>, stop |-> {"_"},
     before |-> <<"<">> \o TagStrong \o <<">">>,
     after |-> <<"<", "/">> \o TagStrong \o <<">">>],
    [open |-> <<"*">>, close |-> <<"*">>, stop |-> {"*"},
     before |-> <<"<">> \o TagEm \o <<">">>,
     after |-> <<"<", "/">> \o TagEm \o <<">">>],
    [open |-> <<"_">>, close |-> <<"_">>, stop |-> {"_"},
     before |-> <<"<">> \o TagEm \o <<">">>,
     after |-> <<"<", "/">> \o TagEm \o <<">">>],
    [open |-> <<"[">>,
     close |-> <<"]", "(", "h", "t", "t", "p", ":", "/", "/", "y", ")">>,
     stop |-> {"]"},
     before |-> AnchorOpen \o <<"h", "t", "t", "p", ":", "/", "/", "y">>
                  \o AnchorAttrs,
     after |-> AnchorClose] }

\* C21: nested inline rendering. For a text that is one marker pair, or one
\* link, around an inner text, renderInlineMarkdown(text, 0) is the outer tag
\* around renderInlineMarkdown(inner text). The code breaks this when the
\* inner text holds a construct that is replaced before the outer one (a
\* code span or a link inside emphasis, a code span inside a link label):
\* the outer handler receives the placeholder of the inner fragment, and
\* **[a](https://x)** gives <strong>@@MD0@@</strong>.
C21_NestedRendering ==
  (inlinePc = "done" /\ depth = 0) =>
    \A c \in OuterConstructs :
      MarkedBy(text, c.open, c.close, c.stop) =>
        inlineResult.out =
          c.before
          \o renderInlineMarkdown(InnerText(text, c.open, c.close), 1)
          \o c.after

\* C22: code spans are protected fragments. For a text c without backticks,
\* renderInlineMarkdown of c between two backticks is <code>, escapeHtml(c),
\* </code>. The code breaks this for a c that holds $: the stored HTML is
\* the replacement text of String.replace, so `$&` gives
\* <code>@@MDPH0@@amp;</code> and `$$` gives <code>$</code>.
C22_CodeSpanVerbatim ==
  (inlinePc = "done" /\ depth = 0
     /\ MarkedBy(text, <<Backtick>>, <<Backtick>>, {Backtick})) =>
    inlineResult.out =
      CodeOpen \o escapeHtml(InnerText(text, <<Backtick>>, <<Backtick>>))
        \o CodeClose

\* the lengths of the maximal runs of the marker character c in t, by the
\* position at which the run starts
RunStarts(t, c) ==
  {i \in 1..Len(t) : t[i] = c /\ (i = 1 \/ t[i - 1] # c)}

RunLength(t, c, i) == SkipWhile(t, {c}, i) - i

\* every marker of t is a single or a double character, and no two markers of
\* t are of the same kind: no marker of t has a closing marker
StrayOnly(t) ==
  \A c \in {"*", "_"} :
    /\ \A i \in RunStarts(t, c) : RunLength(t, c, i) <= 2
    /\ \A i, j \in RunStarts(t, c) :
         RunLength(t, c, i) = RunLength(t, c, j) => i = j

MarkerCount(t) == Occurrences(t, <<"*">>) + Occurrences(t, <<"_">>)

\* C24: stray style markers are not interpreted. For a text whose markers
\* **, __, * and _ have no closing marker of the same kind,
\* renderInlineMarkdown(text, 0) holds no <strong> and no <em>, and every
\* marker character of the text is in the output.
C24_StrayMarkers ==
  (inlinePc = "done" /\ depth = 0 /\ StrayOnly(text) /\ trim(text) # <<>>) =>
    /\ ~Contains(inlineResult.out, <<"<">> \o TagStrong)
    /\ ~Contains(inlineResult.out, <<"<">> \o TagEm)
    /\ MarkerCount(inlineResult.out) = MarkerCount(text)
    /\ inlineResult.out = escapeHtml(text)

\* the text **a* has been rendered: the double marker is closed by a single
\* one only, and the text comes out as it is
C24_Witness ==
  /\ inlinePc = "done"
  /\ depth = 0
  /\ text = <<"*", "*", "a", "*">>
  /\ inlineResult.out = text

\* the trimmed line t is a single dash-like character, or starts with one
\* that is followed by text and is no list item (a hyphen and white space) and
\* no divider (three or more hyphens and nothing else); the text holds no line
\* terminator
DashLine(t) ==
  /\ t # <<>>
  /\ t[1] \in DashLike
  /\ Len(t) > 1 =>
       /\ ~(t[1] = "-" /\ t[2] \in WhiteSpace)
       /\ ~(Len(t) >= 3 /\ \A i \in 1..Len(t) : t[i] = "-")
       /\ DotStar(t)

\* the text of a dash line: what follows the dash and the white space after it
DashText(t) == RestFrom(t, SkipWhile(t, WhiteSpace, 2))

\* the lines of the input that are dash lines with a text
DashTextLines ==
  {k \in DOMAIN InputLines :
     DashLine(trim(InputLines[k])) /\ Len(trim(InputLines[k])) > 1}

\* C25: dash lines never start or extend a list. In both converters, reading
\* a dash line leaves the list context as it is: no list is opened and no
\* item is added; a dash line with a text puts that text, without the dash,
\* alone on the paragraph buffer, and in the output the text is a line of a
\* paragraph block and an item of no list.
C25_DashLines ==
  \A p \in Profiles :
    /\ (/\ pc[p] = "loop"
        /\ lineNo[p] <= Len(InputLines)
        /\ DashLine(trim(InputLines[lineNo[p]]))) =>
         /\ ProcessLine(p, Locals(p), InputLines[lineNo[p]], lineNo[p]).listContext
              = listContext[p]
         /\ Len(trim(InputLines[lineNo[p]])) > 1 =>
              ProcessLine(p, Locals(p), InputLines[lineNo[p]], lineNo[p]).paragraphBuffer
                = <<DashText(trim(InputLines[lineNo[p]]))>>
    /\ Returned(p) =>
         \A k \in DashTextLines :
           /\ \E b \in DOMAIN blocks[p] :
                /\ blocks[p][b].kind = "paragraph"
                /\ \E n \in DOMAIN blocks[p][b].texts :
                     blocks[p][b].texts[n] = DashText(trim(InputLines[k]))
           /\ \A b \in DOMAIN blocks[p] :
                blocks[p][b].kind = "list" =>
                  \A n \in DOMAIN blocks[p][b].texts :
                    blocks[p][b].texts[n] # DashText(trim(InputLines[k]))

\* both converters have read an em dash line after a list item: the list
\* still holds its one item, and the output has a paragraph with the text
\* and a list with the item
C25_Witness ==
  /\ InputLines = << <<"-", " ", "a">>, <<EmDash, " ", "u", " ", "v">> >>
  /\ \A p \in Profiles :
       /\ Returned(p)
       /\ Len(blocks[p]) = 2
       /\ \E b \in DOMAIN blocks[p] :
            blocks[p][b].kind = "paragraph"
              /\ blocks[p][b].texts = << <<"u", " ", "v">> >>
       /\ \E b \in DOMAIN blocks[p] :
            blocks[p][b].kind = "list"
              /\ blocks[p][b].texts = << <<"a">> >>

\* the trimmed line is digits, a dot or a closing parenthesis, white space
\* and a text without a line terminator
OrderedLine(line) ==
  LET t == trim(line)
      d == LeadingRun(t, {"0", "1", "2", "3", "4", "5", "6", "7", "8", "9"})
  IN d >= 1 /\ Len(t) >= d + 3 /\ t[d + 1] \in {".", ")"}
       /\ t[d + 2] \in WhiteSpace /\ DotStar(t)

\* the type of list the line is an item of
ItemType(line) ==
  IF OrderedLine(line) THEN "ordered"
  ELSE IF UnorderedLine(line) THEN "unordered" ELSE "none"

\* the list blocks of a call, in the order of the output
ListBlocks(bs) == SelectSeq(bs, LAMBDA b : b.kind = "list")

\* C26: switching the list kind flushes the old list first. In both
\* converters, when the line read is an item of the other kind than the open
\* list, the open list is emitted, as the last segment so far and with the
\* items it has, and a new list of the new kind starts with that item alone.
\* In the output the lists stand in source order, every list element is an
\* <ol or an <ul according to its kind, and no list holds items of both
\* kinds: the items of an unordered list have no ordinal, those of an ordered
\* list all have one.
C26_SwitchFlushes ==
  \A p \in Profiles :
    /\ (/\ pc[p] = "loop"
        /\ lineNo[p] <= Len(InputLines)
        /\ listContext[p] # NoList
        /\ ItemType(InputLines[lineNo[p]]) \notin {"none", listContext[p].type}) =>
         LET after == ProcessLine(p, Locals(p), InputLines[lineNo[p]], lineNo[p])
         IN /\ Len(after.segments) > Len(segments[p])
            /\ after.blocks[Len(after.blocks)] = ListBlock(listContext[p])
            /\ after.listContext.type = ItemType(InputLines[lineNo[p]])
            /\ Len(after.listContext.items) = 1
            /\ after.listContext.line = lineNo[p]
    /\ Returned(p) =>
         /\ \A i, j \in DOMAIN ListBlocks(blocks[p]) :
              i < j => ListBlocks(blocks[p])[i].line < ListBlocks(blocks[p])[j].line
         /\ \A i \in DOMAIN blocks[p] :
              blocks[p][i].kind = "list" =>
                /\ Contains(segments[p][i],
                            <<"<">> \o (IF blocks[p][i].listType = "ordered"
                                        THEN TagOl ELSE TagUl))
                /\ ~Contains(segments[p][i],
                             <<"<">> \o (IF blocks[p][i].listType = "ordered"
                                         THEN TagUl ELSE TagOl))
                /\ \A n \in DOMAIN blocks[p][i].ordinals :
                     (blocks[p][i].ordinals[n] = NoOrdinal)
                       <=> (blocks[p][i].listType = "unordered")
                /\ \A n \in DOMAIN blocks[p][i].texts :
                     \E k \in DOMAIN InputLines :
                       /\ ItemType(InputLines[k]) = blocks[p][i].listType
                       /\ EndsWith(trim(InputLines[k]), blocks[p][i].texts[n])
         /\ Occurrences(result[p], <<"<", "/">> \o TagOl \o <<">">>)
              = Cardinality({i \in DOMAIN blocks[p] :
                               blocks[p][i].kind = "list"
                                 /\ blocks[p][i].listType = "ordered"})

\* both converters have returned an unordered list, an ordered list and a
\* second unordered list for three items of alternating kinds
C26_Witness ==
  /\ Len(InputLines) = 3
  /\ UnorderedLine(InputLines[1])
  /\ OrderedLine(InputLines[2])
  /\ UnorderedLine(InputLines[3])
  /\ \A p \in Profiles :
       /\ Returned(p)
       /\ Len(segments[p]) = 3
       /\ Len(ListBlocks(blocks[p])) = 3
       /\ Occurrences(result[p], <<"<">> \o TagUl) = 2
       /\ Occurrences(result[p], <<"<">> \o TagOl) = 1

Digits == {"0", "1", "2", "3", "4", "5", "6", "7", "8", "9"}

\* the number written at position j of s, and the number after a number
NumberAt(s, j) == SubSeq(s, j, SkipWhile(s, Digits, j) - 1)
Successor(x) == DigitString(Add(DigitValues(x), <<1>>))

\* the start value of the list element seg: its start attribute, or 1
StartOf(seg) ==
  IF Contains(seg, StartAttrOpen)
  THEN NumberAt(seg, IndexOfFrom(seg, {"\""},
                       Min({i \in 1..Len(seg) : StartsWithAt(seg, i, StartAttrOpen)}))
                     + 1)
  ELSE <<"1">>

\* the positions of the <li of seg, and the position of the k-th of them
ItemPositions(seg) == {i \in 1..Len(seg) : StartsWithAt(seg, i, LiOpen)}

ItemPosition(seg, k) ==
  CHOOSE i \in ItemPositions(seg) :
    Cardinality({j \in ItemPositions(seg) : j <= i}) = k

\* the number an HTML renderer shows for the k-th item of the ordered list
\* seg: its value attribute, or else the start value for the first item and
\* one more than the item before for any other
RECURSIVE Displayed(_, _)
Displayed(seg, k) ==
  IF StartsWithAt(seg, ItemPosition(seg, k) + Len(LiOpen), ValueAttrOpen)
  THEN NumberAt(seg, ItemPosition(seg, k) + Len(LiOpen) + Len(ValueAttrOpen))
  ELSE IF k = 1 THEN StartOf(seg)
  ELSE Successor(Displayed(seg, k - 1))

\* C27: explicit numbering is preserved. For every ordered list of either
\* converter, the number displayed for each item equals the ordinal the item
\* has in the source. The code breaks this: the value attribute is written
\* when the ordinal differs from start + index, not from the number before
\* plus one, so in "5. g\n7. h\n7. h" the third item has no value attribute
\* and is displayed as 8.
C27_NumberingPreserved ==
  \A p \in Profiles :
    Returned(p) =>
      \A i \in DOMAIN blocks[p] :
        (blocks[p][i].kind = "list" /\ blocks[p][i].listType = "ordered") =>
          /\ Cardinality(ItemPositions(segments[p][i])) = Len(blocks[p][i].ordinals)
          /\ \A k \in DOMAIN blocks[p][i].ordinals :
               Displayed(segments[p][i], k) = blocks[p][i].ordinals[k]

\* line is a text line for converter p: not blank, and no heading, divider,
\* blockquote, list item or dash line
TextLine(p, line) ==
  LET t == trim(line)
  IN /\ t # <<>>
     /\ ~headingMatch(p, t).ok
     /\ ~dividerTest(t)
     /\ ~blockquoteMatch(t).ok
     /\ ~OrderedLine(line)
     /\ ~UnorderedLine(line)
     /\ t[1] \notin DashLike

\* a dash line with a text: it opens a paragraph with that text
DashTextLine(line) == DashLine(trim(line)) /\ Len(trim(line)) > 1

\* line n opens a run of consecutive text lines, and the last line of that run
RunStart(p, n) ==
  /\ TextLine(p, InputLines[n])
  /\ n > 1 => ~TextLine(p, InputLines[n - 1])

RunEnd(p, n) ==
  Max({m \in n..Len(InputLines) : \A j \in n..m : TextLine(p, InputLines[j])})

\* the texts of the paragraph of the run that line n opens: the lines of the
\* run, after the text of the dash line right before it if there is one
RunTexts(p, n) ==
  (IF n > 1 /\ DashTextLine(InputLines[n - 1])
   THEN <<DashText(trim(InputLines[n - 1]))>> ELSE <<>>)
  \o [j \in 1..(RunEnd(p, n) - n + 1) |-> trim(InputLines[n + j - 1])]

RunFirst(n) == IF n > 1 /\ DashTextLine(InputLines[n - 1]) THEN n - 1 ELSE n

\* the element the claim gives for a paragraph of these lines
ParagraphOf(p, texts) ==
  IF p = "Semantic"
  THEN POpen
       \o Join([k \in DOMAIN texts |-> renderInlineMarkdown(texts[k], 0)], PBreak)
       \o PClose
  ELSE DivParagraphOpen
       \o renderInlineMarkdown(trim(CollapseWhiteSpace(Join(texts, <<" ">>))), 0)
       \o DivClose

\* C28: paragraph rendering. In both converters every run of consecutive
\* non-blank text lines forms one paragraph block of exactly these lines (after
\* the text of a dash line right before the run); markdownToHtml emits for it
\* one <p> with the inline rendering of each line, joined by <br /> and a line
\* feed, markdownToDivHtml one <div class="paragraph"> with the inline
\* rendering of the lines joined by single spaces with every run of white
\* space collapsed. The code breaks this when a dash line has put its text on
\* the buffer while a list is open: the blank line after it does not flush,
\* and the text line after the blank line joins the paragraph of the dash line.
C28_ParagraphRendering ==
  \A p \in Profiles :
    Returned(p) =>
      \A n \in DOMAIN InputLines :
        RunStart(p, n) =>
          /\ Cardinality({i \in DOMAIN blocks[p] :
                            /\ blocks[p][i].kind = "paragraph"
                            /\ blocks[p][i].line = RunFirst(n)}) = 1
          /\ \A i \in DOMAIN blocks[p] :
               (blocks[p][i].kind = "paragraph" /\ blocks[p][i].line = RunFirst(n)) =>
                 /\ blocks[p][i].texts = RunTexts(p, n)
                 /\ segments[p][i] = ParagraphOf(p, RunTexts(p, n))

\* the text of an item line: what follows the marker and the white space
\* after it
ItemContent(line) ==
  LET t == trim(line)
      d == LeadingRun(t, Digits)
  IN IF OrderedLine(line) THEN RestFrom(t, SkipWhile(t, WhiteSpace, d + 2))
     ELSE RestFrom(t, SkipWhile(t, WhiteSpace, 2))

\* the item lines of the input, in source order
ItemLines == SelectSeq(InputLines, LAMBDA line : ItemType(line) # "none")

\* the positions of the <li of s, in the order of s
ItemPositionSeq(s) ==
  SelectSeq([i \in 1..Len(s) |-> i], LAMBDA i : StartsWithAt(s, i, LiOpen))

\* the <li at position i of s holds the item of this content: behind the next
\* > stands its rendering up to </li>, or, for an item that a nested list
\* follows, the rendering of the content without its colon
HoldsItem(s, i, content) ==
  LET at == IndexOfFrom(s, {">"}, i) + 1
  IN \/ StartsWithAt(s, at, renderInlineMarkdown(content, 0) \o LiClose)
     \/ /\ ColonLine(content)
        /\ StartsWithAt(s, at,
             renderInlineMarkdown(SubSeq(content, 1, Len(content) - 1), 0)
               \o NestedOpen)

\* C29: list item conservation. For every input and both converters, the <li
\* of the output are, one for one and in source order, the lines of the input
\* that are list items: no item is dropped or duplicated by a blank line
\* inside the list, by the colon nesting or by a list flush.
C29_ItemConservation ==
  \A p \in Profiles :
    Returned(p) =>
      LET at == ItemPositionSeq(result[p])
      IN /\ Len(at) = Len(ItemLines)
         /\ \A k \in DOMAIN ItemLines :
              HoldsItem(result[p], at[k], ItemContent(ItemLines[k]))

\* both converters have returned on a list of two items with a blank line
\* between them, the first ending with a colon: two <li each, the second
\* nested in markdownToHtml
C29_Witness ==
  /\ \A p \in Profiles :
       Returned(p) /\ Occurrences(result[p], LiOpen) = 2 /\ Len(segments[p]) = 1
  /\ Len(InputLines) = 3
  /\ ColonLine(InputLines[1]) /\ UnorderedLine(InputLines[1])
  /\ trim(InputLines[2]) = <<>>
  /\ UnorderedLine(InputLines[3])
  /\ Occurrences(result["Semantic"], NestedOpen) = 1
  /\ Occurrences(result["DivWrapped"], NestedOpen) = 0

\* text that looks like a placeholder token
PlaceholderLike == <<"@", "@", "M", "D", "0", "@", "@">>

\* C30: placeholder isolation. For every text, literal text that looks like a
\* placeholder token appears in the output of renderInlineMarkdown as its own
\* characters, as often as in the input, and the HTML of a code span or a link
\* appears at most once per construct of the source. The code breaks this: the
\* first pass replaces every @@MD0@@ of the escaped text, the literal one
\* included, by the key of the first protected fragment, and the second pass
\* replaces every key by the fragment's HTML.
C30_PlaceholderIsolation ==
  inlinePc = "done" =>
    /\ Occurrences(inlineResult.out, PlaceholderLike)
         = Occurrences(text, PlaceholderLike)
    /\ Occurrences(inlineResult.out, CodeOpen) * 2 <= Occurrences(text, <<Backtick>>)
    /\ Occurrences(inlineResult.out, AnchorOpen) <= Occurrences(text, <<"]", "(">>)

====
